---- MODULE Spec2Model ----
(***************************************************************************)
(* A model of the animation and expression orchestration of the talking    *)
(* head: the camera mode manager, the morph-target controllers (blink,     *)
(* lip-sync, emotion), the randomized timers, the pointer debounce and the *)
(* generated-sequence player, each translated from src/src/main.tsx and    *)
(* src/src/main_fixed.tsx.  Each subsystem has a specification of its own  *)
(* over the shared variables; the variables of the other subsystems stay   *)
(* at their initial values.                                                *)
(*                                                                         *)
(* Lengths are integers in units of 1/10000 of a world unit, morph weights *)
(* in percent, pointer coordinates in 1/1000, times in milliseconds.       *)
(***************************************************************************)
EXTENDS Integers, Sequences, FiniteSets, TLC

VARIABLES
  \* ---- CameraManager (main.tsx 977-1081) ----
  mode,                 \* 'ORBIT' | 'FOLLOW' | 'TRANSITION_TO_ORBIT'
  controlsEnabled,      \* controls.enabled
  targetGroup,          \* TRUE iff targetGroup is set
  followTargetBone,     \* TRUE iff followTargetBone is set
  cameraPosition,       \* camera.position
  controlsTarget,       \* controls.target
  savedCameraPosition,
  savedControlsTarget,
  followTicks,          \* number of updateFollowCamera steps taken (bounded)
  setModeCalls,         \* number of setMode calls made (bounded)
  requested,            \* the newMode argument of the last of them, "none" before the first
  enabledAt             \* the distances measured by the step that last enabled the controls

camVars == << mode, controlsEnabled, targetGroup, followTargetBone, cameraPosition,
              controlsTarget, savedCameraPosition, savedControlsTarget,
              followTicks, setModeCalls, requested, enabledAt >>

VARIABLES
  \* ---- morph targets: IdleBlinker, LipSync, applyEmotion (main.tsx 541-800, 1157-1199) ----
  now,                  \* performance.now()
  vrmMeshes,            \* the skinned meshes, in traversal order; each its morphTargetDictionary
  lipMeshes,            \* LipSync.meshes: indices into vrmMeshes, in LipSync's own order
  influences,           \* morphTargetInfluences of each mesh, by channel name
  isBlinking,           \* IdleBlinker.isBlinking
  nextBlinkTime,        \* IdleBlinker.nextBlinkTime
  blinkStart,           \* startTime of the running triggerBlink
  blinkFrame,           \* TRUE iff a doBlink callback is queued with requestAnimationFrame
  blinkErrors,          \* number of "Could not find blink morphs" errors logged (bounded)
  intervalId,           \* TRUE iff LipSync.intervalId is not null
  lastVowel,            \* LipSync.lastVowel, "null" when null
  currentEmotion,
  previousEmotion,      \* the argument of the applyEmotion call before the latest one
  reapplyTimers,        \* pending setTimeout(() => applyEmotion(currentEmotion), 100)
  revertTimers,         \* pending setTimeout(() => applyEmotion("neutral"), durationMs)
  lastWrite             \* the controller that wrote last, and the channels it wrote

faceVars == << now, vrmMeshes, lipMeshes, influences, isBlinking, nextBlinkTime, blinkStart,
               blinkFrame, blinkErrors, intervalId, lastVowel, currentEmotion, previousEmotion,
               reapplyTimers, revertTimers, lastWrite >>

VARIABLES
  \* ---- idle timers: startIdleAnimationLoop (main_fixed.tsx 379-405), IdleManager (main.tsx 503-532) ----
  animationPhase,       \* the base action the loop played last: "standing", "idle", or "talk"
  animationTimeout,     \* the pending setTimeout of the loop: its callback, delay, and whether
                        \* the delay is the dwell of a phase just played
  talkRunning,          \* talkAction.isRunning()
  nextHeadMoveTime,     \* IdleManager.nextHeadMoveTime
  nextEyeMoveTime       \* IdleManager.nextEyeMoveTime

timerVars == << animationPhase, animationTimeout, talkRunning, nextHeadMoveTime,
                nextEyeMoveTime >>

VARIABLES
  \* ---- pointer debounce: mousemove handler and animate (main.tsx 1301-1322, 2051-2062) ----
  dateNow,              \* Date.now()
  lastFrameTime,        \* the time of the previous animate() frame (clock.getDelta)
  lastMouseUpdate,
  pendingMouseTarget,   \* << >> when null
  mousePosition,        \* the pointer position the gaze ray is cast through
  lastSample,           \* the latest sample a mousemove event delivered, << >> before the first
  mouseMoves            \* number of mousemove events delivered (bounded)

gazeVars == << dateNow, lastFrameTime, lastMouseUpdate, pendingMouseTarget, mousePosition,
               lastSample, mouseMoves >>

VARIABLES
  \* ---- playGeneratedSequence, in its two variants (main.tsx 1894-2043, 2692-2810) ----
  draft,                \* which variant is built in: "A" (hard reset at the end) or
                        \* "B" (Standing, then Idle, at the end)
  idleTracks,           \* the idle clip is there: idleClipData.tracks.length > 0, or
                        \* BvhIdlePlayer.actions.length > 0
  mixer,                \* identity of the global mixer, the one animate() ticks; 0 when undefined
  mixersMade,           \* number of AnimationMixer objects constructed so far
  call,                 \* per call of playGeneratedSequence: its position, its clips, currentActionIndex
  listeners,            \* the onActionFinished listeners registered: << mixer, call >>
  playing,              \* the sequence actions scheduled and running: << mixer, call, index >>
  base,                 \* what plays besides a sequence: "cycle", "none", "standing", "idle"
  standingTimeout,      \* the timer the standingTimeout handle refers to: "none", "cycle", "toIdle"
  orphanTimers,         \* pending delayed-Idle timers whose handle has been overwritten
  trace,                \* the play, finished, Standing, Idle, fallback and reset events so far
  visible,              \* a model is in the scene and its visible flag is set
  idleManager,          \* the global idleManager: "undefined", or its isActive as "active" / "paused"
  bvhIdlePlayer,        \* the global bvhIdlePlayer: "undefined", or its isActive as "active" / "paused"
  reloading,            \* a loadCharacterModel started by selectCharacter is awaiting its loads
  selections,           \* number of selectCharacter calls made after the first load
  lastEvent             \* the last 'finished' event handed to a listener it was not meant for

seqVars == << draft, idleTracks, mixer, mixersMade, call, listeners, playing, base,
              standingTimeout, orphanTimers, trace, visible, idleManager, bvhIdlePlayer,
              reloading, selections, lastEvent >>

VARIABLES
  \* ---- playAudioWithLipSync and the LipSync objects it drives (main.tsx 1387-1432) ----
  lipSync,              \* identity of the global lipSync object; 0 when undefined
  lipSyncsMade,         \* number of LipSync objects constructed so far
  intervals,            \* the LipSync objects whose intervalId is not null
  audio                 \* per call of playAudioWithLipSync: its position, what its data is
                        \* like, and the LipSync object its start() ran on (0: none)

audioVars == << lipSync, lipSyncsMade, intervals, audio >>

VARIABLES
  \* ---- the gaze control of animate() (main.tsx 2064-2124) ----
  currentTime,          \* performance.now(), in ms
  nextCameraGlanceTime, \* start of the scheduled camera glance, 0 before the first frame
  lookAtTarget,         \* what the last frame passed to idleManager.setLookAtTarget
  lastGazeTime,         \* currentTime of the last frame, -1 before the first
  lookAtCameraUntil,    \* IdleManager.lookAtCameraUntil
  lookTimers,           \* due times of the pending timeouts of IdleManager.lookAtCamera
  idleBranch            \* the branch IdleManager.update took in the last frame

glanceVars == << currentTime, nextCameraGlanceTime, lookAtTarget, lastGazeTime,
                 lookAtCameraUntil, lookTimers, idleBranch >>

VARIABLES
  \* ---- the models of loadCharacterModel (main.tsx 1759-1892) ----
  currentModel,         \* identity of the global currentModel; 0 when undefined
  scene,                \* the character models that are children of the scene
  shownModels,          \* the character models whose visible flag is true
  load                  \* per call of loadCharacterModel: its position

sceneVars == << currentModel, scene, shownModels, load >>

VARIABLES
  \* ---- the vowel selection of one lip-sync tick (main.tsx 755-771) ----
  tickShapes,           \* this.vowelShapes: the keys of the profile's lipsync table
  tickLastVowel,        \* this.lastVowel, "null" when null
  tickNewVowel,         \* the local newVowel of the tick that is running
  tickPc                \* "idle" between ticks, "loop" at the test of the while loop

tickVars == << tickShapes, tickLastVowel, tickNewVowel, tickPc >>

vars == << camVars, faceVars, timerVars, gazeVars, seqVars, audioVars, glanceVars,
           sceneVars, tickVars >>

CamFrame ==
  UNCHANGED << faceVars, timerVars, gazeVars, seqVars, audioVars, glanceVars, sceneVars, tickVars >>
FaceFrame ==
  UNCHANGED << camVars, timerVars, gazeVars, seqVars, audioVars, glanceVars, sceneVars, tickVars >>
TimerFrame ==
  UNCHANGED << camVars, gazeVars, seqVars, audioVars, glanceVars, sceneVars, tickVars >>
GlanceFrame ==
  UNCHANGED << camVars, timerVars, gazeVars, seqVars, audioVars, sceneVars, tickVars >>
SceneFrame ==
  UNCHANGED << camVars, faceVars, timerVars, gazeVars, seqVars, audioVars, glanceVars,
               tickVars >>
TickFrame ==
  UNCHANGED << camVars, faceVars, timerVars, gazeVars, seqVars, audioVars, glanceVars,
               sceneVars >>
GazeFrame ==
  UNCHANGED << camVars, faceVars, timerVars, seqVars, audioVars, glanceVars, sceneVars, tickVars >>
SeqFrame ==
  UNCHANGED << faceVars, timerVars, gazeVars, audioVars, glanceVars, sceneVars, tickVars >>
AudioFrame ==
  UNCHANGED << camVars, faceVars, timerVars, gazeVars, seqVars, glanceVars, sceneVars, tickVars >>

-----------------------------------------------------------------------------
(* Vectors *)

Abs(x) == IF x < 0 THEN -x ELSE x

\* Vector3.add
VAdd(p, q) == << p[1] + q[1], p[2] + q[2], p[3] + q[3] >>

\* squared Euclidean distance, for vectors that are close in every coordinate
DistSq(p, q) ==
  (p[1] - q[1]) * (p[1] - q[1]) + (p[2] - q[2]) * (p[2] - q[2])
    + (p[3] - q[3]) * (p[3] - q[3])

\* Vector3.distanceTo(q) < eps
DistLess(p, q, eps) ==
  /\ \A i \in 1..3 : Abs(p[i] - q[i]) < eps
  /\ DistSq(p, q) < eps * eps

\* dampingFactor = 0.05, in percent
dampingFactor == 5

\* Vector3.lerp(t, dampingFactor): this += (t - this) * alpha, per coordinate
Lerp(p, t) == [ i \in 1..3 |-> p[i] + ((t[i] - p[i]) * dampingFactor) \div 100 ]

-----------------------------------------------------------------------------
(* CameraManager *)

\* the "close enough" threshold 0.01 of updateTransitionToOrbit
Epsilon == 100

followOffset == << 0, 20000, 40000 >>
lookAtOffset == << 0, 5000, 0 >>

\* camera.position.set(0, 2, 1.6) and controls.target.set(0, 1.2, 0) in init()
InitialCameraPosition == << 0, 20000, 16000 >>
InitialControlsTarget == << 0, 12000, 0 >>

\* poses the user can orbit or pan to while the controls are enabled
UserCameraPositions == { InitialCameraPosition, << 12000, 20000, 10000 >> }
UserControlsTargets == { InitialControlsTarget, << 0, 10000, 0 >> }

\* world positions of the followed bone while a clip animates it
BonePositions == { << 0, 9000, 0 >>, << 3000, 9000, 2000 >> }

MaxFollowTicks == 2
MaxSetModeCalls == 3

CamInit ==
  /\ mode = "ORBIT"
  /\ controlsEnabled = TRUE
  /\ targetGroup = FALSE
  /\ followTargetBone = FALSE
  /\ cameraPosition = InitialCameraPosition
  /\ controlsTarget = InitialControlsTarget
  /\ savedCameraPosition = << 0, 0, 0 >>
  /\ savedControlsTarget = << 0, 0, 0 >>
  /\ followTicks = 0
  /\ setModeCalls = 0
  /\ requested = "none"
  /\ enabledAt = << >>

\* a setMode that cuts straight back to ORBIT
setModeDirect(newMode) ==
  IF mode = newMode
    THEN UNCHANGED << mode, controlsEnabled, savedCameraPosition, savedControlsTarget >>
    ELSE IF newMode = "FOLLOW"
      THEN IF ~followTargetBone
        THEN UNCHANGED << mode, controlsEnabled, savedCameraPosition, savedControlsTarget >>
        ELSE /\ savedCameraPosition' = cameraPosition
             /\ savedControlsTarget' = controlsTarget
             /\ mode' = "FOLLOW"
             /\ controlsEnabled' = FALSE
      ELSE /\ mode' = "ORBIT"
           /\ controlsEnabled' = TRUE
           /\ UNCHANGED << savedCameraPosition, savedControlsTarget >>

\* a setMode that enters FOLLOW whether or not there is a bone to follow
setModeAnyBone(newMode) ==
  IF mode = newMode
    THEN UNCHANGED << mode, controlsEnabled, savedCameraPosition, savedControlsTarget >>
    ELSE IF newMode = "FOLLOW"
      THEN /\ savedCameraPosition' = cameraPosition
           /\ savedControlsTarget' = controlsTarget
           /\ mode' = "FOLLOW"
           /\ controlsEnabled' = FALSE
      ELSE /\ mode' = "TRANSITION_TO_ORBIT"
           /\ controlsEnabled' = FALSE
           /\ UNCHANGED << savedCameraPosition, savedControlsTarget >>

\* a setMode that hands the controls back as soon as the transition starts
setModeEarlyControls(newMode) ==
  IF mode = newMode
    THEN UNCHANGED << mode, controlsEnabled, savedCameraPosition, savedControlsTarget >>
    ELSE IF newMode = "FOLLOW"
      THEN IF ~followTargetBone
        THEN UNCHANGED << mode, controlsEnabled, savedCameraPosition, savedControlsTarget >>
        ELSE /\ savedCameraPosition' = cameraPosition
             /\ savedControlsTarget' = controlsTarget
             /\ mode' = "FOLLOW"
             /\ controlsEnabled' = FALSE
      ELSE /\ mode' = "TRANSITION_TO_ORBIT"
           /\ controlsEnabled' = TRUE
           /\ UNCHANGED << savedCameraPosition, savedControlsTarget >>

\* CameraManager.setMode(newMode), newMode \in {'ORBIT', 'FOLLOW'}
setMode(newMode) ==
  IF mode = newMode
    THEN UNCHANGED << mode, controlsEnabled, savedCameraPosition, savedControlsTarget >>
    ELSE IF newMode = "FOLLOW"
      THEN IF ~followTargetBone
        THEN UNCHANGED << mode, controlsEnabled, savedCameraPosition, savedControlsTarget >>
        ELSE /\ savedCameraPosition' = cameraPosition
             /\ savedControlsTarget' = controlsTarget
             /\ mode' = "FOLLOW"
             /\ controlsEnabled' = FALSE
      ELSE /\ mode' = "TRANSITION_TO_ORBIT"
           /\ controlsEnabled' = FALSE
           /\ UNCHANGED << savedCameraPosition, savedControlsTarget >>

\* a completion test that is satisfied by either distance alone
TransitionCompleteEither(pos, look) ==
  \/ DistLess(pos, savedCameraPosition, Epsilon)
  \/ DistLess(look, savedControlsTarget, Epsilon)

\* the completion test of updateTransitionToOrbit, on the distances after the lerp
TransitionComplete(pos, look) ==
  /\ DistLess(pos, savedCameraPosition, Epsilon)
  /\ DistLess(look, savedControlsTarget, Epsilon)

\* CameraManager.updateTransitionToOrbit
updateTransitionToOrbit ==
  LET pos  == Lerp(cameraPosition, savedCameraPosition)
      look == Lerp(controlsTarget, savedControlsTarget)
  IN IF TransitionComplete(pos, look)
       THEN /\ cameraPosition' = savedCameraPosition
            /\ controlsTarget' = savedControlsTarget
            /\ mode' = "ORBIT"
            /\ controlsEnabled' = TRUE
            /\ enabledAt' = << pos, look >>
       ELSE /\ cameraPosition' = pos
            /\ controlsTarget' = look
            /\ UNCHANGED << mode, controlsEnabled, enabledAt >>

\* CameraManager.updateFollowCamera, the bone being at world position bone
updateFollowCamera(bone) ==
  IF ~followTargetBone \/ ~targetGroup
    THEN UNCHANGED << cameraPosition, controlsTarget >>
    ELSE /\ cameraPosition' = Lerp(cameraPosition, VAdd(bone, followOffset))
         /\ controlsTarget' = Lerp(controlsTarget, VAdd(bone, lookAtOffset))

\* OrbitControls.update(): the user moves the camera only while the controls are enabled
controlsUpdate ==
  IF controlsEnabled
    THEN /\ cameraPosition' \in UserCameraPositions \cup { cameraPosition }
         /\ controlsTarget' \in UserControlsTargets \cup { controlsTarget }
    ELSE UNCHANGED << cameraPosition, controlsTarget >>

\* CameraManager.update(), called once per frame by animate()
CameraUpdate ==
  /\ IF mode = "FOLLOW" /\ followTargetBone
       THEN /\ followTicks < MaxFollowTicks
            /\ \E bone \in BonePositions : updateFollowCamera(bone)
            /\ followTicks' = followTicks + 1
            /\ UNCHANGED << mode, controlsEnabled, enabledAt >>
       ELSE IF mode = "TRANSITION_TO_ORBIT"
         THEN updateTransitionToOrbit /\ UNCHANGED followTicks
         ELSE controlsUpdate /\ UNCHANGED << mode, controlsEnabled, enabledAt, followTicks >>
  /\ UNCHANGED << targetGroup, followTargetBone, savedCameraPosition,
                  savedControlsTarget, setModeCalls, requested >>
  /\ CamFrame

\* a caller (playGeneratedSequence) requests a mode
CameraSetMode ==
  /\ setModeCalls < MaxSetModeCalls
  /\ \E newMode \in { "ORBIT", "FOLLOW" } : setMode(newMode) /\ requested' = newMode
  /\ setModeCalls' = setModeCalls + 1
  /\ UNCHANGED << targetGroup, followTargetBone, cameraPosition, controlsTarget,
                  followTicks, enabledAt >>
  /\ CamFrame

\* loadCharacterModel: setTargetGroup(currentModel), then setFollowTargetBone(hips or undefined)
CameraLoadCharacter ==
  /\ targetGroup' = TRUE
  /\ \E hips \in BOOLEAN : followTargetBone' = hips
  /\ UNCHANGED << mode, controlsEnabled, cameraPosition, controlsTarget,
                  savedCameraPosition, savedControlsTarget, followTicks,
                  setModeCalls, requested, enabledAt >>
  /\ CamFrame

-----------------------------------------------------------------------------
(* Morph target registry: characters[i].morphs, the same tables in every profile *)

blink == { "eyeBlinkLeft", "eyeBlinkRight" }

lipsync ==
  [ A |-> { "jawOpen", "mouthOpen" },
    I |-> { "mouthStretchLeft", "mouthStretchRight" },
    U |-> { "mouthFunnel" },
    E |-> { "mouthShrugUpper" },
    O |-> { "mouthPucker" } ]

\* weights in percent
emotions ==
  [ neutral   |-> [ m \in {} |-> 0 ],
    happy     |-> [ mouthSmile |-> 100, cheekSquintLeft |-> 70, cheekSquintRight |-> 70 ],
    angry     |-> [ browDownLeft |-> 100, browDownRight |-> 100,
                    mouthFrownLeft |-> 80, mouthFrownRight |-> 80 ],
    sad       |-> [ browInnerUp |-> 100, mouthPucker |-> 50,
                    mouthFrownLeft |-> 50, mouthFrownRight |-> 50 ],
    surprised |-> [ eyeWideLeft |-> 100, eyeWideRight |-> 100, jawOpen |-> 60,
                    browInnerUp |-> 100 ],
    wink      |-> [ eyeBlinkRight |-> 100, browInnerUp |-> 50 ] ]

\* LipSync.vowelShapes = Object.keys(lipSyncMap)
vowelShapes == DOMAIN lipsync

\* every channel the lip-sync table names
lipsyncMorphs == UNION { lipsync[v] : v \in vowelShapes }

\* applyEmotion's allEmotionMorphs: every channel of any preset
allEmotionMorphs == UNION { DOMAIN emotions[e] : e \in DOMAIN emotions }

\* the channels each controller is registered for
Registered(controller) ==
  CASE controller = "blink" -> blink
    [] controller = "lipsync" -> lipsyncMorphs
    [] controller = "emotion" -> allEmotionMorphs

Controllers == { "blink", "lipsync", "emotion" }

\* names an emotion button or a caller can pass: the presets and a name that is none
EmotionNames == DOMAIN emotions \cup { "unknown" }

-----------------------------------------------------------------------------
(* Meshes.  A mesh without morph targets has neither morphTargetDictionary nor          *)
(* morphTargetInfluences.  The dictionaries of one model give a shared name the same    *)
(* index, so influences are kept by name.                                               *)

FullDictionary == blink \cup lipsyncMorphs \cup allEmotionMorphs
MouthDictionary == lipsyncMorphs \cup { "mouthSmile", "mouthFrownLeft", "mouthFrownRight" }

HeadMesh == [ name |-> "Wolf3D_Head",  morphs |-> TRUE,  dictionary |-> FullDictionary ]
TeethMesh == [ name |-> "Wolf3D_Teeth", morphs |-> TRUE,  dictionary |-> MouthDictionary ]
BodyMesh == [ name |-> "Wolf3D_Body",  morphs |-> FALSE, dictionary |-> {} ]

\* the traversal orders of the models considered
MeshProfiles ==
  { << HeadMesh, TeethMesh >>, << BodyMesh, HeadMesh >>, << TeethMesh, HeadMesh >>,
    << BodyMesh >>, << >> }

\* mesh.name.includes("Head") || mesh.name.includes("Teeth") || ...
IsFacial(mesh) == mesh.name \in { "Wolf3D_Head", "Wolf3D_Teeth" }

Indices(meshes) == [ i \in 1..Len(meshes) |-> i ]

\* the LipSync constructor: facial meshes first, when there is one
LipSyncOrder(meshes) ==
  LET facial == SelectSeq(Indices(meshes), LAMBDA i : IsFacial(meshes[i]))
      other  == SelectSeq(Indices(meshes), LAMBDA i : ~IsFacial(meshes[i]))
  IN IF Len(facial) > 0 THEN facial \o other ELSE Indices(meshes)

\* influences of freshly loaded meshes: every channel at 0
ZeroInfluences(meshes) ==
  [ i \in 1..Len(meshes) |-> [ ch \in meshes[i].dictionary |-> 0 ] ]

\* mesh.morphTargetInfluences[dictionary[name]] = value for every name of names, on every
\* mesh of meshList that has influences
WriteAll(inf, meshList, names, value) ==
  [ i \in DOMAIN inf |->
      IF \E k \in 1..Len(meshList) : meshList[k] = i
        THEN [ ch \in DOMAIN inf[i] |-> IF ch \in names THEN value ELSE inf[i][ch] ]
        ELSE inf[i] ]

-----------------------------------------------------------------------------
(* Math.random() on a grid: the values k / RandomSteps, k = 0 .. RandomSteps - 1 *)

RandomSteps == 3
Random == 0..(RandomSteps - 1)

\* low + Math.random() * range, for the grid value k
RandomIn(low, range, k) == low + (k * range) \div RandomSteps

-----------------------------------------------------------------------------
(* applyEmotion *)

\* an applyEmotion without its reset loop
KeepEmotionMorphs(inf) == inf

\* the reset loop: every emotion channel a mesh has goes to 0
ResetEmotionMorphs(inf) ==
  [ i \in DOMAIN inf |->
      [ ch \in DOMAIN inf[i] |-> IF ch \in allEmotionMorphs THEN 0 ELSE inf[i][ch] ] ]

\* an applyEmotion that resets and applies nothing
ApplyPresetNone(inf, emotionData) == inf

\* the apply loop: the preset's weights, on every mesh that has the channel
ApplyPreset(inf, emotionData) ==
  [ i \in DOMAIN inf |->
      [ ch \in DOMAIN inf[i] |->
          IF ch \in DOMAIN emotionData THEN emotionData[ch] ELSE inf[i][ch] ] ]

\* the influences applyEmotion(emotion) leaves
EmotionInfluences(inf, emotion) ==
  IF emotion \in DOMAIN emotions
    THEN ApplyPreset(ResetEmotionMorphs(inf), emotions[emotion])
    ELSE ResetEmotionMorphs(inf)

\* the channels applyEmotion(emotion) writes on some mesh
EmotionWrites(emotion) ==
  { ch \in allEmotionMorphs : \E i \in 1..Len(vrmMeshes) : ch \in vrmMeshes[i].dictionary }

\* applyEmotion(emotion); the character is selected (currentCharacter is set)
applyEmotion(emotion) ==
  IF Len(vrmMeshes) = 0
    THEN UNCHANGED << influences, currentEmotion, previousEmotion, lastWrite >>
    ELSE /\ influences' = EmotionInfluences(influences, emotion)
         /\ currentEmotion' = emotion
         /\ previousEmotion' = currentEmotion
         /\ lastWrite' = [ by |-> "emotion", chans |-> EmotionWrites(emotion) ]

-----------------------------------------------------------------------------
(* LipSync *)

\* LipSync.isTalking()
isTalking == intervalId

\* the mesh whose dictionary setMorphs uses: this.meshes[0]
LipFirst == vrmMeshes[lipMeshes[1]]

\* the channels setMorphs(shapeNames, value) writes
LipWrites(shapeNames) ==
  IF Len(lipMeshes) = 0 \/ ~LipFirst.morphs THEN {}
  ELSE { ch \in shapeNames : ch \in LipFirst.dictionary }

\* LipSync.setMorphs(shapeNames, value), as the influences it leaves
setMorphs(inf, shapeNames, value) == WriteAll(inf, lipMeshes, LipWrites(shapeNames), value)

\* the grid of Math.random() for the value of a tick
LipSteps == 2

\* the value of a tick: 0.4 + 0.2 * Math.random(), in percent
LipValue(k) == 40 + (20 * k) \div LipSteps

\* a stop() or a tick that leaves the last vowel's channels as they are
StopInfluencesKeep(inf) == inf

\* stop()'s effect on the morphs: the last vowel's channels go to 0
StopInfluences(inf) ==
  IF lastVowel # "null" THEN setMorphs(inf, lipsync[lastVowel], 0) ELSE inf

\* start() moves the first mesh that has a dictionary to the front
StartOrder(order) ==
  LET withDict == { k \in 1..Len(order) : vrmMeshes[order[k]].morphs }
  IN IF withDict = {} THEN order
     ELSE LET k == CHOOSE x \in withDict : \A y \in withDict : x <= y
          IN << order[k] >> \o SelectSeq(order, LAMBDA i : i # order[k])

MaxTimers == 1

\* a start() that never returns early
AlwaysTargetMesh == FALSE

\* start() returns before setInterval: no mesh at all, or none with a morphTargetDictionary
NoTargetMesh ==
  Len(lipMeshes) = 0 \/ \A k \in 1..Len(lipMeshes) : ~vrmMeshes[lipMeshes[k]].morphs

\* LipSync.start(), with its leading stop() when an interval is running
LipSyncStart ==
  /\ IF isTalking
       THEN /\ reapplyTimers < MaxTimers
            /\ influences' = StopInfluences(influences)
            /\ reapplyTimers' = reapplyTimers + 1
            /\ lastWrite' = IF lastVowel # "null"
                 THEN [ by |-> "lipsync", chans |-> LipWrites(lipsync[lastVowel]) ]
                 ELSE lastWrite
       ELSE UNCHANGED << influences, reapplyTimers, lastWrite >>
  /\ lastVowel' = IF isTalking THEN "null" ELSE lastVowel
  /\ IF NoTargetMesh
       THEN intervalId' = FALSE /\ UNCHANGED lipMeshes
       ELSE intervalId' = TRUE /\ lipMeshes' = StartOrder(lipMeshes)
  /\ UNCHANGED << now, vrmMeshes, blinkErrors, revertTimers, isBlinking, nextBlinkTime,
                  blinkStart, blinkFrame, currentEmotion, previousEmotion >>
  /\ FaceFrame

\* one run of the setInterval callback of start()
LipSyncTick ==
  /\ intervalId
  /\ Len(lipMeshes) > 0
  /\ \E newVowel \in vowelShapes \ { lastVowel }, k \in 0..(LipSteps - 1) :
       /\ influences' = setMorphs(StopInfluences(influences), lipsync[newVowel], LipValue(k))
       /\ lastVowel' = newVowel
       /\ lastWrite' = [ by |-> "lipsync",
                         chans |-> LipWrites(lipsync[newVowel]) \cup
                                   (IF lastVowel # "null" THEN LipWrites(lipsync[lastVowel])
                                    ELSE {}) ]
  /\ UNCHANGED << now, vrmMeshes, blinkErrors, revertTimers, lipMeshes, isBlinking,
                  nextBlinkTime, blinkStart, blinkFrame, intervalId, currentEmotion,
                  previousEmotion, reapplyTimers >>
  /\ FaceFrame

\* LipSync.stop(), called when the audio ends or fails
LipSyncStop ==
  /\ reapplyTimers < MaxTimers
  /\ intervalId' = FALSE
  /\ influences' = StopInfluences(influences)
  /\ lastVowel' = "null"
  /\ reapplyTimers' = reapplyTimers + 1
  /\ lastWrite' = IF lastVowel # "null"
       THEN [ by |-> "lipsync", chans |-> LipWrites(lipsync[lastVowel]) ]
       ELSE lastWrite
  /\ UNCHANGED << now, vrmMeshes, blinkErrors, revertTimers, lipMeshes, isBlinking,
                  nextBlinkTime, blinkStart, blinkFrame, currentEmotion, previousEmotion >>
  /\ FaceFrame

\* the timer of stop() fires: applyEmotion(currentEmotion)
ReapplyEmotion ==
  /\ reapplyTimers > 0
  /\ reapplyTimers' = reapplyTimers - 1
  /\ applyEmotion(currentEmotion)
  /\ UNCHANGED << now, vrmMeshes, blinkErrors, revertTimers, lipMeshes, isBlinking,
                  nextBlinkTime, blinkStart, blinkFrame, intervalId, lastVowel >>
  /\ FaceFrame

\* an emotion button, or a caller of applyEmotion
ApplyEmotion ==
  /\ \E emotion \in EmotionNames : applyEmotion(emotion)
  /\ UNCHANGED << now, vrmMeshes, blinkErrors, revertTimers, lipMeshes, isBlinking,
                  nextBlinkTime, blinkStart, blinkFrame, intervalId, lastVowel, reapplyTimers >>
  /\ FaceFrame

MaxReverts == 1

\* playEmotionAfterTalking("happy", 1500), called when a chat turn or a script has ended
PlayEmotionAfterTalking ==
  /\ revertTimers < MaxReverts
  /\ applyEmotion("happy")
  /\ revertTimers' = revertTimers + 1
  /\ UNCHANGED << now, vrmMeshes, blinkErrors, lipMeshes, isBlinking, nextBlinkTime, blinkStart,
                  blinkFrame, intervalId, lastVowel, reapplyTimers >>
  /\ FaceFrame

\* the timer of playEmotionAfterTalking fires: applyEmotion("neutral")
RevertEmotion ==
  /\ revertTimers > 0
  /\ revertTimers' = revertTimers - 1
  /\ applyEmotion("neutral")
  /\ UNCHANGED << now, vrmMeshes, blinkErrors, lipMeshes, isBlinking, nextBlinkTime, blinkStart,
                  blinkFrame, intervalId, lastVowel, reapplyTimers >>
  /\ FaceFrame

-----------------------------------------------------------------------------
(* IdleBlinker *)

blinkDuration == 150

\* the weight doBlink writes at elapsedTime, in percent
BlinkValue(elapsedTime) ==
  IF 2 * elapsedTime < blinkDuration
    THEN (elapsedTime * 200) \div blinkDuration
    ELSE 100 - ((2 * elapsedTime - blinkDuration) * 100) \div blinkDuration

\* blinkIndices of triggerBlink: the blink names meshes[0]'s dictionary has
blinkIndices ==
  IF Len(vrmMeshes) = 0 \/ ~vrmMeshes[1].morphs THEN {}
  ELSE { ch \in blink : ch \in vrmMeshes[1].dictionary }

\* an update guard that does not look at the clock
BlinkMayStartEarly == ~isBlinking /\ ~isTalking

\* an update guard that does not look at the lip-sync driver
BlinkMayStartTalking == ~isBlinking /\ now >= nextBlinkTime

\* the guard of IdleBlinker.update
BlinkMayStart == ~isBlinking /\ ~isTalking /\ now >= nextBlinkTime

\* a setNextBlink() that may schedule the next blink for right now
NextBlinkSoon(k) == RandomIn(0, 6000, k)

\* setNextBlink(): 2000 + Math.random() * 6000 after now
NextBlinkDelay(k) == RandomIn(2000, 6000, k)

MaxErrors == 2

\* IdleBlinker.update(performance.now()) of a frame in which it does not return early,
\* with the triggerBlink() it calls
IdleBlinkerUpdate ==
  /\ Len(vrmMeshes) > 0
  /\ BlinkMayStart
  /\ IF blinkIndices = {}
       THEN /\ UNCHANGED << isBlinking, blinkStart, blinkFrame >>
            /\ IF vrmMeshes[1].morphs
                 THEN blinkErrors < MaxErrors /\ blinkErrors' = blinkErrors + 1
                 ELSE UNCHANGED blinkErrors
       ELSE /\ isBlinking' = TRUE
            /\ blinkStart' = now
            /\ blinkFrame' = TRUE
            /\ UNCHANGED blinkErrors
  /\ UNCHANGED << now, vrmMeshes, revertTimers, lipMeshes, influences, nextBlinkTime,
                  intervalId, lastVowel, currentEmotion, previousEmotion, reapplyTimers,
                  lastWrite >>
  /\ FaceFrame

\* one run of doBlink, the requestAnimationFrame callback of triggerBlink
DoBlink ==
  /\ blinkFrame
  /\ LET elapsedTime == now - blinkStart
         all == Indices(vrmMeshes)
     IN IF elapsedTime >= blinkDuration
          THEN /\ influences' = WriteAll(influences, all, blinkIndices, 0)
               /\ isBlinking' = FALSE
               /\ blinkFrame' = FALSE
               /\ \E k \in Random : nextBlinkTime' = now + NextBlinkDelay(k)
          ELSE /\ influences' = WriteAll(influences, all, blinkIndices, BlinkValue(elapsedTime))
               /\ UNCHANGED << isBlinking, blinkFrame, nextBlinkTime >>
  /\ lastWrite' = [ by |-> "blink", chans |-> blinkIndices ]
  /\ UNCHANGED << now, vrmMeshes, blinkErrors, revertTimers, lipMeshes, blinkStart, intervalId,
                  lastVowel, currentEmotion, previousEmotion, reapplyTimers >>
  /\ FaceFrame

-----------------------------------------------------------------------------
(* Time *)

MaxTime == 2150
TimeSteps == { 75, 2000 }

\* the clock moves between two callbacks
AdvanceTime ==
  /\ \E dt \in TimeSteps : now + dt <= MaxTime /\ now' = now + dt
  /\ UNCHANGED << vrmMeshes, blinkErrors, revertTimers, lipMeshes, influences, isBlinking,
                  nextBlinkTime, blinkStart, blinkFrame, intervalId, lastVowel, currentEmotion,
                  previousEmotion, reapplyTimers, lastWrite >>
  /\ FaceFrame

\* the clock moves between two runs of doBlink: a blink that is running has its
\* duration also where AdvanceTime has reached MaxTime
BlinkClock ==
  /\ blinkFrame
  /\ now - blinkStart < blinkDuration
  /\ \E dt \in TimeSteps : (\A e \in TimeSteps : dt <= e) /\ now' = now + dt
  /\ UNCHANGED << vrmMeshes, blinkErrors, revertTimers, lipMeshes, influences, isBlinking,
                  nextBlinkTime, blinkStart, blinkFrame, intervalId, lastVowel, currentEmotion,
                  previousEmotion, reapplyTimers, lastWrite >>
  /\ FaceFrame

\* the face after loadCharacterModel has built IdleBlinker and LipSync over meshes
FaceLoaded(meshes, k) ==
  /\ now = 0
  /\ vrmMeshes = meshes
  /\ lipMeshes = LipSyncOrder(meshes)
  /\ influences = ZeroInfluences(meshes)
  /\ isBlinking = FALSE
  /\ nextBlinkTime = NextBlinkDelay(k)
  /\ blinkStart = 0
  /\ blinkFrame = FALSE
  /\ blinkErrors = 0
  /\ intervalId = FALSE
  /\ lastVowel = "null"
  /\ currentEmotion = "neutral"
  /\ previousEmotion = "neutral"
  /\ reapplyTimers = 0
  /\ revertTimers = 0
  /\ lastWrite = [ by |-> "none", chans |-> {} ]

FaceInit == \E meshes \in MeshProfiles, k \in Random : FaceLoaded(meshes, k)

\* the face left alone: one loaded model, nothing running
FaceIdle == FaceLoaded(<< HeadMesh, TeethMesh >>, 0)

-----------------------------------------------------------------------------
(* Idle timers *)

\* THREE.MathUtils.randFloat(low, high) = low + Math.random() * (high - low)
randFloat(low, high, k) == RandomIn(low, high - low, k)

\* a standing dwell drawn from a wider range
StandingDurationWide(k) == RandomIn(5000, 8000, k)

\* standingDuration = 5000 + Math.random() * 5000
StandingDuration(k) == RandomIn(5000, 5000, k)

\* idleDuration = 4000 + Math.random() * 4000
IdleDuration(k) == RandomIn(4000, 4000, k)

HeadMoveDelay(k) == randFloat(3000, 6000, k)
EyeMoveDelay(k) == randFloat(500, 2500, k)

\* the delay of a retry while the talk action runs
RetryDelay == 1000

\* playStanding(); the standing and idle actions exist once the model is loaded
playStanding ==
  IF talkRunning
    THEN /\ animationTimeout' = [ callback |-> "playStanding", delay |-> RetryDelay,
                                  dwell |-> FALSE ]
         /\ UNCHANGED animationPhase
    ELSE /\ \E k \in Random :
              animationTimeout' = [ callback |-> "playIdle", delay |-> StandingDuration(k),
                                    dwell |-> TRUE ]
         /\ animationPhase' = "standing"

\* playIdle()
playIdle ==
  IF talkRunning
    THEN /\ animationTimeout' = [ callback |-> "playIdle", delay |-> RetryDelay,
                                  dwell |-> FALSE ]
         /\ UNCHANGED animationPhase
    ELSE /\ \E k \in Random :
              animationTimeout' = [ callback |-> "playStanding", delay |-> IdleDuration(k),
                                    dwell |-> TRUE ]
         /\ animationPhase' = "idle"

\* the state startIdleAnimationLoop() leaves when the model has loaded, for grid value k
TimersStarted(k) ==
  /\ animationPhase = "standing"
  /\ animationTimeout = [ callback |-> "playIdle", delay |-> StandingDuration(k),
                          dwell |-> TRUE ]
  /\ talkRunning = FALSE
  /\ nextHeadMoveTime = 0
  /\ nextEyeMoveTime = 0

TimerInit == \E k \in Random : TimersStarted(k)

\* the timers left alone
TimerIdle == TimersStarted(0)

\* the timer of the loop fires and runs its callback
AnimationTimeoutFires ==
  /\ IF animationTimeout.callback = "playStanding" THEN playStanding ELSE playIdle
  /\ UNCHANGED << talkRunning, nextHeadMoveTime, nextEyeMoveTime >>
  /\ UNCHANGED faceVars
  /\ TimerFrame

\* startIdleAnimationLoop(), called again when a generation ends: the pending timer is
\* cleared and playStanding() runs at once
StartIdleAnimationLoop ==
  /\ playStanding
  /\ UNCHANGED << talkRunning, nextHeadMoveTime, nextEyeMoveTime >>
  /\ UNCHANGED faceVars
  /\ TimerFrame

\* handleTalkAction up to its await: every action stopped, the talk action played
TalkActionStart ==
  /\ ~talkRunning
  /\ talkRunning' = TRUE
  /\ animationPhase' = "talk"
  /\ UNCHANGED << animationTimeout, nextHeadMoveTime, nextEyeMoveTime >>
  /\ UNCHANGED faceVars
  /\ TimerFrame

\* the talk action has faded out
TalkActionEnd ==
  /\ talkRunning
  /\ talkRunning' = FALSE
  /\ UNCHANGED << animationPhase, animationTimeout, nextHeadMoveTime, nextEyeMoveTime >>
  /\ UNCHANGED faceVars
  /\ TimerFrame

\* updateHeadMovement(now, deltaTime): a new delay once now has passed nextHeadMoveTime
updateHeadMovement ==
  IF now > nextHeadMoveTime
    THEN \E k \in Random : nextHeadMoveTime' = now + HeadMoveDelay(k)
    ELSE UNCHANGED nextHeadMoveTime

\* updateEyeMovement(now, deltaTime): a new delay once now has passed nextEyeMoveTime
updateEyeMovement ==
  IF now > nextEyeMoveTime
    THEN \E k \in Random : nextEyeMoveTime' = now + EyeMoveDelay(k)
    ELSE UNCHANGED nextEyeMoveTime

\* IdleManager.update(deltaTime) of a frame without a look-at target, in which a delay is drawn
IdleManagerUpdate ==
  /\ now > nextHeadMoveTime \/ now > nextEyeMoveTime
  /\ updateHeadMovement
  /\ updateEyeMovement
  /\ UNCHANGED << animationPhase, animationTimeout, talkRunning >>
  /\ UNCHANGED faceVars
  /\ TimerFrame

-----------------------------------------------------------------------------
(* Pointer debounce.  Normalised pointer coordinates in 1/1000.                         *)

mouseGazeDelay == 50

\* squared distance of two pointer positions
Dist2Sq(p, q) == (p[1] - q[1]) * (p[1] - q[1]) + (p[2] - q[2]) * (p[2] - q[2])

\* the pointer samples a mousemove event can deliver
MouseSamples == { << 500, -500 >>, << -1000, 1000 >> }

ClockStep == 25
MaxDateNow == 150
MaxMouseMoves == 2

\* lerpFactor = Math.min(delta * 3.0, 1.0), in 1/1000, for delta in milliseconds
lerpFactor(delta) == IF 3 * delta < 1000 THEN 3 * delta ELSE 1000

\* Vector2.lerp(target, factor)
Lerp2(p, target, factor) ==
  [ i \in 1..2 |-> p[i] + ((target[i] - p[i]) * factor) \div 1000 ]

\* a frame that moves the pointer as soon as a sample is pending
DelayIgnored(t) == t >= lastMouseUpdate

\* (Date.now() - lastMouseUpdate) >= mouseGazeDelay
DelayElapsed(t) == t - lastMouseUpdate >= mouseGazeDelay

GazeInit ==
  /\ dateNow = 0
  /\ lastFrameTime = 0
  /\ lastMouseUpdate = 0
  /\ pendingMouseTarget = << >>
  /\ mousePosition = << 0, 0 >>
  /\ lastSample = << >>
  /\ mouseMoves = 0

\* the mousemove handler; the body of its timer is empty
MouseMove ==
  /\ mouseMoves < MaxMouseMoves
  /\ \E sample \in MouseSamples :
       /\ pendingMouseTarget' = sample
       /\ lastSample' = sample
  /\ lastMouseUpdate' = dateNow
  /\ mouseMoves' = mouseMoves + 1
  /\ UNCHANGED << dateNow, lastFrameTime, mousePosition >>
  /\ GazeFrame

\* the pointer interpolation at the head of animate()
AnimateFrame ==
  /\ lastFrameTime' = dateNow
  /\ IF pendingMouseTarget # << >> /\ DelayElapsed(dateNow)
       THEN LET moved == Lerp2(mousePosition, pendingMouseTarget,
                                lerpFactor(dateNow - lastFrameTime))
            IN /\ mousePosition' = moved
               /\ pendingMouseTarget' =
                    IF Dist2Sq(moved, pendingMouseTarget) < 10 * 10 THEN << >>
                    ELSE pendingMouseTarget
       ELSE UNCHANGED << mousePosition, pendingMouseTarget >>
  /\ UNCHANGED << dateNow, lastMouseUpdate, lastSample, mouseMoves >>
  /\ GazeFrame

\* the wall clock moves
ClockTick ==
  /\ dateNow + ClockStep <= MaxDateNow
  /\ dateNow' = dateNow + ClockStep
  /\ UNCHANGED << lastFrameTime, lastMouseUpdate, pendingMouseTarget, mousePosition,
                  lastSample, mouseMoves >>
  /\ GazeFrame

-----------------------------------------------------------------------------
(* The gaze control of animate(): talking, the camera glance, the pointer *)

CAMERA_GLANCE_INTERVAL_MIN == 1000
CAMERA_GLANCE_INTERVAL_MAX == 8000
CAMERA_GLANCE_DURATION == 2000

\* performance.now() between two frames
GlanceStep == 1000
MaxGlanceNow == 12000

\* currentTime + Math.random() * (INTERVAL_MAX - INTERVAL_MIN) + INTERVAL_MIN, for grid value k
NextGlance(t, k) ==
  t + RandomIn(0, CAMERA_GLANCE_INTERVAL_MAX - CAMERA_GLANCE_INTERVAL_MIN, k)
    + CAMERA_GLANCE_INTERVAL_MIN

\* shouldGlanceAtCamera
shouldGlanceAtCamera(t, next) == t >= next /\ t < next + CAMERA_GLANCE_DURATION

\* a gaze control that asks the glance window only
GazeTargetGlanceOnly(talking, t, next) ==
  IF shouldGlanceAtCamera(t, next) THEN "camera" ELSE "intersection"

\* the argument of idleManager.setLookAtTarget in a frame: the camera's world position, or the
\* intersection of the pointer ray with the plane through the model
GazeTarget(talking, t, next) ==
  IF talking THEN "camera"
  ELSE IF shouldGlanceAtCamera(t, next) THEN "camera" ELSE "intersection"

\* the reschedule inside the glance branch: taken when its own test holds
RescheduledGlance(t, next, k) ==
  IF t >= next + CAMERA_GLANCE_DURATION THEN NextGlance(t, k) ELSE next

\* the duration handleMotionClick passes to lookAtCamera
LookAtCameraMs == 5000

\* pending lookAtCamera timeouts
MaxLooks == 1

\* IdleManager.update, the manager initialized and active: performLookAt when
\* this.lookAtTarget is set, the ambient idle motion when it is null
UpdateBranch(target) == IF target # "none" THEN "lookAt" ELSE "ambient"

\* one frame of animate(), idleManager set: the gaze control, then idleManager.update
AnimateGaze ==
  /\ \E k0 \in Random, k \in Random :
       LET next == IF nextCameraGlanceTime = 0 THEN NextGlance(currentTime, k0)
                   ELSE nextCameraGlanceTime
       IN /\ lookAtTarget' = GazeTarget(isTalking, currentTime, next)
          /\ nextCameraGlanceTime' =
               IF ~isTalking /\ shouldGlanceAtCamera(currentTime, next)
                 THEN RescheduledGlance(currentTime, next, k)
                 ELSE next
  /\ lastGazeTime' = currentTime
  /\ idleBranch' = UpdateBranch(lookAtTarget')
  /\ UNCHANGED << currentTime, lookAtCameraUntil, lookTimers, faceVars >>
  /\ GlanceFrame

\* performance.now() moves on
GlanceClock ==
  /\ currentTime + GlanceStep <= MaxGlanceNow
  /\ currentTime' = currentTime + GlanceStep
  /\ UNCHANGED << nextCameraGlanceTime, lookAtTarget, lastGazeTime, lookAtCameraUntil,
                  lookTimers, idleBranch, faceVars >>
  /\ GlanceFrame

\* handleMotionClick up to its first await: idleManager.lookAtCamera(5000)
MotionClick ==
  /\ Cardinality(lookTimers) < MaxLooks
  /\ lookAtCameraUntil' = currentTime + LookAtCameraMs
  /\ lookAtTarget' = "camera"
  /\ lookTimers' = lookTimers \cup { currentTime + LookAtCameraMs }
  /\ UNCHANGED << currentTime, nextCameraGlanceTime, lastGazeTime, idleBranch, faceVars >>
  /\ GlanceFrame

\* a timeout of lookAtCamera fires: the target is cleared unless lookAtCameraUntil is 0
LookAtCameraTimeout ==
  /\ \E due \in lookTimers :
       /\ currentTime >= due
       /\ lookTimers' = lookTimers \ { due }
  /\ IF lookAtCameraUntil # 0
       THEN /\ lookAtCameraUntil' = 0
            /\ lookAtTarget' = "none"
       ELSE UNCHANGED << lookAtCameraUntil, lookAtTarget >>
  /\ UNCHANGED << currentTime, nextCameraGlanceTime, lastGazeTime, idleBranch, faceVars >>
  /\ GlanceFrame

\* no frame has run
GlanceIdle ==
  /\ currentTime = 0
  /\ nextCameraGlanceTime = 0
  /\ lookAtTarget = "none"
  /\ lastGazeTime = -1
  /\ lookAtCameraUntil = 0
  /\ lookTimers = {}
  /\ idleBranch = "none"

-----------------------------------------------------------------------------
(* loadCharacterModel and the scene.  Each call removes the model that currentModel refers
   to, awaits the character's file, and adds the model built from it. *)

MaxLoads == 3
LoadCalls == 1 .. MaxLoads

\* the model that call c builds: GLTFLoader parses a new scene for every load
ModelOf(c) == c

\* scene.remove(currentModel) under `if (currentModel)`
SceneRemoved == IF currentModel # 0 THEN scene \ { currentModel } ELSE scene

\* selectCharacter (a card click, or the first load), or resetToIdleTransform at the end of
\* a sequence: the clean-up of loadCharacterModel, up to the await of the character's file
LoadCharacterModelEnter(c) ==
  /\ load[c] = "new"
  /\ scene' = SceneRemoved
  /\ load' = [load EXCEPT ![c] = "loading"]
  /\ UNCHANGED << currentModel, shownModels >>
  /\ SceneFrame

\* the file has arrived: the model is made current and added, hidden; a model without a
\* SkinnedMesh ends the call, any other goes on to await the idle player
ModelLoaded(c) ==
  /\ load[c] = "loading"
  /\ currentModel' = ModelOf(c)
  /\ shownModels' = shownModels \ { ModelOf(c) }
  /\ scene' = scene \cup { ModelOf(c) }
  /\ \E skinned \in BOOLEAN :
       load' = [load EXCEPT ![c] = IF skinned THEN "initializing" ELSE "done"]
  /\ SceneFrame

\* bvhIdlePlayer.initialize() has resolved: the model currentModel refers to is shown
IdlePlayerInitialized(c) ==
  /\ load[c] = "initializing"
  /\ shownModels' = shownModels \cup { currentModel }
  /\ load' = [load EXCEPT ![c] = "done"]
  /\ UNCHANGED << currentModel, scene >>
  /\ SceneFrame

\* before the first load
SceneIdle ==
  /\ currentModel = 0
  /\ scene = {}
  /\ shownModels = {}
  /\ load = [c \in LoadCalls |-> "new"]

-----------------------------------------------------------------------------
(* The vowel selection of a lip-sync tick, one draw of Math.random at a time.  Nothing
   else runs while the loop does: the tick is one callback. *)

\* the lipsync tables a profile can carry: any non-empty choice of keys
VowelTables == (SUBSET DOMAIN lipsync) \ { {} }

\* a LipSync object is constructed over a profile's table; no tick has run
TickConstructed(shapes) ==
  /\ tickShapes = shapes
  /\ tickLastVowel = "null"
  /\ tickNewVowel = "null"
  /\ tickPc = "idle"

\* the interval fires: let newVowel = this.lastVowel!
TickEnter ==
  /\ tickPc = "idle"
  /\ tickNewVowel' = tickLastVowel
  /\ tickPc' = "loop"
  /\ UNCHANGED << tickShapes, tickLastVowel >>
  /\ TickFrame

\* one pass of the loop body: the test held, Math.random picked the vowel v
VowelDraw(v) ==
  /\ tickPc = "loop"
  /\ tickNewVowel = tickLastVowel
  /\ v \in tickShapes
  /\ tickNewVowel' = v
  /\ UNCHANGED << tickShapes, tickLastVowel, tickPc >>
  /\ TickFrame

\* the test fails: the rest of the tick, this.lastVowel = newVowel
TickExit ==
  /\ tickPc = "loop"
  /\ tickNewVowel # tickLastVowel
  /\ tickLastVowel' = tickNewVowel
  /\ tickPc' = "idle"
  /\ UNCHANGED << tickShapes, tickNewVowel >>
  /\ TickFrame

\* stop() between two ticks, and start() again
TickRestart ==
  /\ tickPc = "idle"
  /\ tickLastVowel # "null"
  /\ tickLastVowel' = "null"
  /\ UNCHANGED << tickShapes, tickNewVowel, tickPc >>
  /\ TickFrame

\* the table of the shipped profiles, no tick running
TickIdle == TickConstructed(vowelShapes)

-----------------------------------------------------------------------------
(* playGeneratedSequence.  A clip file loads, or its load rejects, or it loads and       *)
(* retargets to no track.                                                                *)

ClipKinds == { "ok", "fail", "empty" }
MaxClips == 2
MaxCalls == 2

Calls == 1..MaxCalls

\* the lists of filenames a call can be given
ClipLists == UNION { [ 1..n -> ClipKinds ] : n \in 0..MaxClips }

Event(ev, c, i) == [ ev |-> ev, call |-> c, clip |-> i ]

\* a Promise.all that gives up only when the first load rejects
FirstLoadRejects(clips) == Len(clips) > 0 /\ clips[1] = "fail"

\* Promise.all(filenames.map(loadAsync)) rejects when any load rejects
LoadRejects(clips) == \E i \in 1..Len(clips) : clips[i] = "fail"

\* sequenceActions.some(a => a.getClip().tracks.length === 0)
SomeEmpty(clips) == \E i \in 1..Len(clips) : clips[i] = "empty"

\* a listener that moves on by two actions
SkipActionIndex(i) == i + 2

\* currentActionIndex++
NextActionIndex(i) == i + 1

\* mixer.stopAllAction() on mixer m: its scheduled actions stop without a finished event
stopAllAction(m) == { a \in playing : a[1] # m }

\* clearTimeout(standingTimeout)
clearStandingTimeout == standingTimeout' = "none"

\* the camera left as it is
CameraKept == UNCHANGED camVars

\* cameraManager.setMode(newMode) from the sequencer
SeqSetMode(newMode) ==
  /\ setMode(newMode)
  /\ UNCHANGED << targetGroup, followTargetBone, cameraPosition, controlsTarget, followTicks,
                  setModeCalls, requested, enabledAt >>

\* the camera once loadCharacterModel has set the target group and looked for the hips bone
CamLoaded(hips) ==
  /\ mode = "ORBIT"
  /\ controlsEnabled = TRUE
  /\ targetGroup = TRUE
  /\ followTargetBone = hips
  /\ cameraPosition = InitialCameraPosition
  /\ controlsTarget = InitialControlsTarget
  /\ savedCameraPosition = << 0, 0, 0 >>
  /\ savedControlsTarget = << 0, 0, 0 >>
  /\ followTicks = 0
  /\ setModeCalls = 0
  /\ requested = "none"
  /\ enabledAt = << >>

NoCall == [ pc |-> "new", clips |-> << >>, index |-> 0, reentry |-> FALSE ]

NoEvent == [ listener |-> 0, action |-> << 0, 0, 0 >> ]

MaxSelections == 1

\* the idle systems of variant A and the visible flag, which variant B does not have
IdleSystemsKept == UNCHANGED << visible, idleManager, bvhIdlePlayer >>

\* a setActive(true) that flips the flag and plays nothing
bvhSetActiveSilent ==
  /\ bvhIdlePlayer' = IF bvhIdlePlayer = "paused" THEN "active" ELSE bvhIdlePlayer
  /\ UNCHANGED base

\* BvhIdlePlayer.setActive(true) of the global player, if there is one: a paused player
\* becomes active and, its action having been stopped, plays its idle action if it has one
bvhSetActive ==
  IF bvhIdlePlayer = "paused"
    THEN /\ bvhIdlePlayer' = "active"
         /\ base' = IF idleTracks THEN "idle" ELSE base
    ELSE UNCHANGED << bvhIdlePlayer, base >>

\* the sequencer once loadCharacterModel has run: one mixer, the base animation cycling
SeqLoaded(d, tracks) ==
  /\ draft = d
  /\ idleTracks = tracks
  /\ mixer = 1
  /\ mixersMade = 1
  /\ call = [ c \in Calls |-> NoCall ]
  /\ listeners = {}
  /\ playing = {}
  /\ base = IF d = "A" /\ ~tracks THEN "none" ELSE "cycle"
  /\ standingTimeout = IF d = "B" THEN "cycle" ELSE "none"
  /\ orphanTimers = 0
  /\ trace = << >>
  /\ visible = TRUE
  /\ idleManager = IF d = "A" THEN "active" ELSE "undefined"
  /\ bvhIdlePlayer = IF d = "B" THEN "undefined" ELSE IF tracks THEN "active" ELSE "paused"
  /\ reloading = FALSE
  /\ selections = 0
  /\ lastEvent = NoEvent

SeqInit == \E d \in { "A", "B" }, tracks \in BOOLEAN : SeqLoaded(d, tracks)

\* the sequencer left alone
SeqIdle == SeqLoaded("B", TRUE)

\* the record of a call that has just been made; reentry tells whether an earlier
\* sequence was still playing then
Entered(pc, clips) ==
  [ pc |-> pc, clips |-> clips, index |-> 0,
    reentry |-> \E b \in Calls : call[b].pc = "playing" ]

\* playGeneratedSequence(filenames) up to its await
SequenceEnter ==
  \E c \in Calls, clips \in ClipLists :
    /\ call[c].pc = "new"
    /\ \A b \in Calls : b < c => call[b].pc # "new"
    /\ IF draft = "A"
         THEN IF mixer = 0
           THEN /\ call' = [ call EXCEPT ![c] = Entered("returned", clips) ]
                /\ UNCHANGED << mixer, mixersMade, playing, base, standingTimeout >>
                /\ IdleSystemsKept
                /\ CameraKept
           ELSE /\ call' = [ call EXCEPT ![c] = Entered("loading", clips) ]
                /\ visible' = FALSE
                /\ SeqSetMode("FOLLOW")
                /\ idleManager' = IF idleManager = "undefined" THEN idleManager ELSE "paused"
                /\ bvhIdlePlayer' =
                     IF bvhIdlePlayer = "undefined" THEN bvhIdlePlayer ELSE "paused"
                /\ base' = "none"
                /\ playing' = stopAllAction(mixer)
                /\ UNCHANGED << mixer, mixersMade, standingTimeout >>
         ELSE /\ call' = [ call EXCEPT ![c] = Entered("loading", clips) ]
              /\ clearStandingTimeout
              /\ playing' = stopAllAction(mixer)
              /\ base' = "none"
              /\ mixer' = mixersMade + 1
              /\ mixersMade' = mixersMade + 1
              /\ IdleSystemsKept
              /\ CameraKept
    /\ UNCHANGED << draft, idleTracks, listeners, orphanTimers, trace, reloading, selections,
                    lastEvent >>
    /\ SeqFrame

\* returnToStanding() of variant B
returnToStanding(c) ==
  /\ clearStandingTimeout
  /\ playing' = stopAllAction(mixer)
  /\ mixer' = mixersMade + 1
  /\ mixersMade' = mixersMade + 1
  /\ base' = "standing"
  /\ trace' = Append(trace, Event("fallback", c, 0))
  /\ IdleSystemsKept

\* the fallback of variant A: the idle systems resume and the camera returns to Orbit
resumeIdle(c) ==
  /\ bvhSetActive
  /\ idleManager' = IF idleManager = "undefined" THEN idleManager ELSE "active"
  /\ visible' = IF mixer # 0 THEN TRUE ELSE visible
  /\ SeqSetMode("ORBIT")
  /\ trace' = Append(trace, Event("fallback", c, 0))
  /\ UNCHANGED << mixer, mixersMade, playing, standingTimeout >>

\* the await of playGeneratedSequence rejects: the catch block
SequenceLoadFailed ==
  \E c \in Calls :
    /\ call[c].pc = "loading"
    /\ LoadRejects(call[c].clips)
    /\ call' = [ call EXCEPT ![c].pc = "aborted" ]
    /\ IF draft = "A" THEN resumeIdle(c) ELSE returnToStanding(c) /\ CameraKept
    /\ UNCHANGED << draft, idleTracks, listeners, orphanTimers, reloading, selections,
                    lastEvent >>
    /\ SeqFrame

\* the await resolves and no action can be played: the sequence is given up
SequenceRetargetFailed ==
  \E c \in Calls :
    /\ call[c].pc = "loading"
    /\ ~LoadRejects(call[c].clips)
    /\ Len(call[c].clips) = 0 \/ (draft = "B" /\ SomeEmpty(call[c].clips))
    /\ call' = [ call EXCEPT ![c].pc = "aborted" ]
    /\ IF draft = "A" THEN resumeIdle(c) ELSE returnToStanding(c) /\ CameraKept
    /\ UNCHANGED << draft, idleTracks, listeners, orphanTimers, reloading, selections,
                    lastEvent >>
    /\ SeqFrame

\* the await resolves: the actions are made on the global mixer, the first one is played
\* and the listener is added; in variant A mixer!.clipAction throws when a reset has
\* left the mixer undefined
SequenceLoaded ==
  \E c \in Calls :
    /\ call[c].pc = "loading"
    /\ ~LoadRejects(call[c].clips)
    /\ Len(call[c].clips) > 0
    /\ IF mixer = 0
         THEN /\ call' = [ call EXCEPT ![c].pc = "threw" ]
              /\ UNCHANGED << listeners, playing, trace, visible >>
         ELSE /\ draft = "B" => ~SomeEmpty(call[c].clips)
              /\ call' = [ call EXCEPT ![c].pc = "playing", ![c].index = 1 ]
              /\ playing' = playing \cup { << mixer, c, 1 >> }
              /\ listeners' = listeners \cup { << mixer, c >> }
              /\ trace' = Append(trace, Event("play", c, 1))
              /\ visible' = TRUE
    /\ CameraKept
    /\ UNCHANGED << draft, idleTracks, mixer, mixersMade, base, standingTimeout, orphanTimers,
                    idleManager, bvhIdlePlayer, reloading, selections, lastEvent >>
    /\ SeqFrame

\* a listener that takes every 'finished' event for one of its own
AnyAction(c, a) == TRUE

\* event.action === sequenceActions[currentActionIndex], in the listener of call c
IsCurrentAction(c, a) == a[2] = c /\ a[3] = call[c].index

\* onActionFinished(event) of call c, event.action being a: a return unless a is the
\* current action of c; otherwise the next action is played or, after the last one, the
\* listener is removed and the sequence ends
onActionFinished(c, a) ==
  LET i == call[c].index
      n == Len(call[c].clips)
      j == NextActionIndex(i)
  IN IF ~IsCurrentAction(c, a)
       THEN /\ UNCHANGED << call, listeners, playing, mixer, base, standingTimeout,
                             orphanTimers, trace >>
            /\ IdleSystemsKept
       ELSE IF j <= n
         THEN /\ call' = [ call EXCEPT ![c].index = j ]
              /\ playing' = (playing \ { << mixer, c, i >> }) \cup { << mixer, c, j >> }
              /\ trace' = trace \o << Event("finished", c, i), Event("play", c, j) >>
              /\ UNCHANGED << listeners, mixer, base, standingTimeout, orphanTimers >>
              /\ IdleSystemsKept
         ELSE /\ listeners' = listeners \ { << mixer, c >> }
              /\ playing' = playing \ { << mixer, c, i >> }
              /\ IF draft = "A"
                   THEN /\ call' = [ call EXCEPT ![c].pc = "resetting" ]
                        /\ mixer' = 0
                        /\ base' = "none"
                        /\ visible' = FALSE
                        /\ idleManager' = "undefined"
                        /\ bvhIdlePlayer' = "undefined"
                        /\ trace' = Append(trace, Event("finished", c, i))
                        /\ UNCHANGED << standingTimeout, orphanTimers >>
                   ELSE /\ call' = [ call EXCEPT ![c].pc = "done" ]
                        /\ base' = "standing"
                        /\ orphanTimers' =
                             IF standingTimeout = "toIdle" THEN orphanTimers + 1
                             ELSE orphanTimers
                        /\ standingTimeout' = "toIdle"
                        /\ trace' = trace \o << Event("finished", c, i),
                                                Event("standing", c, 0) >>
                        /\ UNCHANGED mixer
                        /\ IdleSystemsKept

\* the ticked mixer reports that the current action of call c has finished, and the
\* listener of c runs
ActionFinished ==
  \E c \in Calls :
    /\ call[c].pc = "playing"
    /\ mixer # 0
    /\ << mixer, c, call[c].index >> \in playing
    /\ << mixer, c >> \in listeners
    /\ onActionFinished(c, << mixer, c, call[c].index >>)
    /\ CameraKept
    /\ UNCHANGED << draft, idleTracks, mixersMade, reloading, selections, lastEvent >>
    /\ SeqFrame

\* the ticked mixer hands the 'finished' event of an action to the listener of a call
\* whose current action it is not: every listener on the mixer gets every event
ForeignFinished ==
  \E c \in Calls, a \in playing :
    /\ call[c].pc = "playing"
    /\ mixer # 0
    /\ a[1] = mixer
    /\ << mixer, c >> \in listeners
    /\ a # << mixer, c, call[c].index >>
    /\ onActionFinished(c, a)
    /\ lastEvent' = [ listener |-> c, action |-> a ]
    /\ CameraKept
    /\ UNCHANGED << draft, idleTracks, mixersMade, reloading, selections >>
    /\ SeqFrame

\* variant A: resetToIdleTransform() has reloaded the character; the listener goes on
\* with setMode('ORBIT') and the setActive(true) of the idle systems
ResetDone ==
  \E c \in Calls :
    /\ draft = "A"
    /\ call[c].pc = "resetting"
    /\ call' = [ call EXCEPT ![c].pc = "done" ]
    /\ mixer' = mixersMade + 1
    /\ mixersMade' = mixersMade + 1
    /\ base' = IF idleTracks THEN "idle" ELSE "none"
    /\ visible' = TRUE
    /\ idleManager' = "active"
    /\ bvhIdlePlayer' = "active"
    /\ SeqSetMode("ORBIT")
    /\ trace' = Append(trace, Event("reset", c, 0))
    /\ UNCHANGED << draft, idleTracks, listeners, playing, standingTimeout, orphanTimers,
                    reloading, selections, lastEvent >>
    /\ SeqFrame

\* variant A: selectCharacter(index) up to the first await of loadCharacterModel: the
\* actions of the mixer are stopped, the mixer and the idle systems are dropped, the old
\* model leaves the scene
SelectCharacter ==
  /\ draft = "A"
  /\ mixer # 0
  /\ selections < MaxSelections
  /\ selections' = selections + 1
  /\ reloading' = TRUE
  /\ playing' = stopAllAction(mixer)
  /\ mixer' = 0
  /\ base' = "none"
  /\ visible' = FALSE
  /\ idleManager' = "undefined"
  /\ bvhIdlePlayer' = "undefined"
  /\ CameraKept
  /\ UNCHANGED << draft, idleTracks, mixersMade, call, listeners, standingTimeout,
                  orphanTimers, trace, lastEvent >>
  /\ SeqFrame

\* variant A: the loadCharacterModel of selectCharacter has finished: a new mixer, a new
\* BvhIdlePlayer that starts its idle action if it has one, a new active IdleManager,
\* the new model shown
CharacterLoaded ==
  /\ reloading
  /\ reloading' = FALSE
  /\ mixer' = mixersMade + 1
  /\ mixersMade' = mixersMade + 1
  /\ base' = IF idleTracks THEN "cycle" ELSE "none"
  /\ visible' = TRUE
  /\ idleManager' = "active"
  /\ bvhIdlePlayer' = IF idleTracks THEN "active" ELSE "paused"
  /\ CameraKept
  /\ UNCHANGED << draft, idleTracks, call, listeners, playing, standingTimeout, orphanTimers,
                  trace, selections, lastEvent >>
  /\ SeqFrame

\* variant B: a delayed-Idle timer fires, 2500 ms after a sequence ended
IdleTimerFires ==
  /\ standingTimeout = "toIdle" \/ orphanTimers > 0
  /\ \/ /\ standingTimeout = "toIdle"
        /\ standingTimeout' = "none"
        /\ UNCHANGED orphanTimers
     \/ /\ orphanTimers > 0
        /\ orphanTimers' = orphanTimers - 1
        /\ UNCHANGED standingTimeout
  /\ IF idleTracks /\ mixer # 0
       THEN /\ base' = "idle"
            /\ trace' = Append(trace, Event("idle", 0, 0))
       ELSE UNCHANGED << base, trace >>
  /\ CameraKept
  /\ IdleSystemsKept
  /\ UNCHANGED << draft, idleTracks, mixer, mixersMade, call, listeners, playing, reloading,
                  selections, lastEvent >>
  /\ SeqFrame

-----------------------------------------------------------------------------
(* playAudioWithLipSync *)

\* what the base64 data turns out to be: it plays to its end, decodeAudioData rejects,
\* or source.start(0) throws
AudioKinds == { "ok", "undecodable", "unplayable" }

MaxAudio == 2
MaxLipSyncs == 2

AudioCalls == 1..MaxAudio

NoAudio == [ pc |-> "new", kind |-> "ok", on |-> 0 ]

\* loadCharacterModel has run: one LipSync object, no interval, no audio
AudioIdle ==
  /\ lipSync = 1
  /\ lipSyncsMade = 1
  /\ intervals = {}
  /\ audio = [ k \in AudioCalls |-> NoAudio ]

\* lipSync?.stop() on the object l the global refers to (0: undefined): clearInterval
stop(l) == intervals \ { l }

\* lipSync.start() on the object l: a leading stop() if it is talking, then setInterval
start(l) == stop(l) \cup { l }

\* playAudioWithLipSync(base64) up to its first await; it resolves at once when there is
\* no lipSync
PlayAudioEnter ==
  \E k \in AudioCalls, kind \in AudioKinds :
    /\ audio[k].pc = "new"
    /\ \A b \in AudioCalls : b < k => audio[b].pc # "new"
    /\ audio' = [ audio EXCEPT ![k] =
                   [ pc |-> IF lipSync = 0 THEN "resolved" ELSE "decoding",
                     kind |-> kind, on |-> 0 ] ]
    /\ UNCHANGED << lipSync, lipSyncsMade, intervals >>
    /\ AudioFrame

\* decodeAudioData rejects: the catch block stops the global lipSync and resolves
AudioDecodeFailed ==
  \E k \in AudioCalls :
    /\ audio[k].pc = "decoding"
    /\ audio[k].kind = "undecodable"
    /\ intervals' = stop(lipSync)
    /\ audio' = [ audio EXCEPT ![k].pc = "resolved" ]
    /\ UNCHANGED << lipSync, lipSyncsMade >>
    /\ AudioFrame

\* the data is decoded: lipSync.start(), onended is set, source.start(0); a throw of
\* lipSync.start() on an undefined lipSync or of source.start(0) goes to the catch block
AudioDecoded ==
  \E k \in AudioCalls :
    /\ audio[k].pc = "decoding"
    /\ audio[k].kind # "undecodable"
    /\ IF lipSync = 0
         THEN /\ audio' = [ audio EXCEPT ![k].pc = "resolved" ]
              /\ UNCHANGED intervals
         ELSE IF audio[k].kind = "unplayable"
           THEN /\ audio' = [ audio EXCEPT ![k].pc = "resolved", ![k].on = lipSync ]
                /\ intervals' = stop(lipSync)
           ELSE /\ audio' = [ audio EXCEPT ![k].pc = "playing", ![k].on = lipSync ]
                /\ intervals' = start(lipSync)
    /\ UNCHANGED << lipSync, lipSyncsMade >>
    /\ AudioFrame

\* source.onended: the global lipSync is stopped and the promise resolves
AudioEnded ==
  \E k \in AudioCalls :
    /\ audio[k].pc = "playing"
    /\ intervals' = stop(lipSync)
    /\ audio' = [ audio EXCEPT ![k].pc = "resolved" ]
    /\ UNCHANGED << lipSync, lipSyncsMade >>
    /\ AudioFrame

\* loadCharacterModel up to its first await: lipSync = undefined
LipSyncDropped ==
  /\ lipSync # 0
  /\ lipSyncsMade < MaxLipSyncs
  /\ lipSync' = 0
  /\ UNCHANGED << lipSyncsMade, intervals, audio >>
  /\ AudioFrame

\* loadCharacterModel after the model has loaded: lipSync = new LipSync(...)
LipSyncMade ==
  /\ lipSync = 0
  /\ lipSync' = lipSyncsMade + 1
  /\ lipSyncsMade' = lipSyncsMade + 1
  /\ UNCHANGED << intervals, audio >>
  /\ AudioFrame

-----------------------------------------------------------------------------
(* Specifications *)

CamNext == CameraUpdate \/ CameraSetMode \/ CameraLoadCharacter

InitCam ==
  CamInit /\ FaceIdle /\ TimerIdle /\ GazeInit /\ SeqIdle /\ AudioIdle /\ GlanceIdle
  /\ SceneIdle
  /\ TickIdle
SpecCam == InitCam /\ [][CamNext]_vars
\* animate() re-arms itself with requestAnimationFrame, so update() keeps being called
SpecCamLive == SpecCam /\ WF_vars(CameraUpdate)


\* the blinker and the lip-sync driver over time, the emotion left at its initial value
BlinkNext ==
  \/ IdleBlinkerUpdate
  \/ DoBlink
  \/ AdvanceTime
  \/ BlinkClock
  \/ LipSyncStart
  \/ LipSyncTick
  \/ LipSyncStop
  \/ ReapplyEmotion

\* the emotion state and the lip-sync driver, no blink being due
EmotionNext ==
  \/ ApplyEmotion
  \/ ReapplyEmotion
  \/ LipSyncStart
  \/ LipSyncTick
  \/ LipSyncStop

InitFace ==
  FaceInit /\ CamInit /\ TimerIdle /\ GazeInit /\ SeqIdle /\ AudioIdle /\ GlanceIdle
  /\ SceneIdle
  /\ TickIdle

SpecBlink == InitFace /\ [][BlinkNext]_vars

\* a callback queued with requestAnimationFrame runs, and the clock goes on
SpecBlinkLive == SpecBlink /\ WF_vars(DoBlink) /\ WF_vars(BlinkClock)

SpecEmotion == InitFace /\ [][EmotionNext]_vars

\* character loads, overlapping or not
SceneNext ==
  \E c \in LoadCalls :
    \/ LoadCharacterModelEnter(c)
    \/ ModelLoaded(c)
    \/ IdlePlayerInitialized(c)

InitScene ==
  /\ SceneIdle /\ CamInit /\ FaceIdle /\ TimerIdle /\ GazeInit /\ SeqIdle /\ AudioIdle
  /\ GlanceIdle
  /\ TickIdle

SpecScene == InitScene /\ [][SceneNext]_vars

\* the ticks of a LipSync object over some table
TickNext ==
  \/ TickEnter
  \/ \E v \in DOMAIN lipsync : VowelDraw(v)
  \/ TickExit
  \/ TickRestart

InitTick ==
  /\ \E shapes \in VowelTables : TickConstructed(shapes)
  /\ CamInit /\ FaceIdle /\ TimerIdle /\ GazeInit /\ SeqIdle /\ AudioIdle
  /\ GlanceIdle
  /\ SceneIdle

SpecTick == InitTick /\ [][TickNext]_vars

\* a loop that keeps drawing draws every vowel of the table: Math.random gives each index
\* with positive probability
SpecTickLive ==
  /\ SpecTick
  /\ \A v \in DOMAIN lipsync : WF_vars(VowelDraw(v))
  /\ WF_vars(TickExit)

\* the gaze control with a talk starting and ending
GlanceNext ==
  \/ AnimateGaze
  \/ GlanceClock
  \/ LipSyncStart
  \/ LipSyncStop
  \/ ReapplyEmotion

InitGlance ==
  GlanceIdle /\ CamInit /\ FaceIdle /\ TimerIdle /\ GazeInit /\ SeqIdle /\ AudioIdle
  /\ SceneIdle
  /\ TickIdle

SpecGlance == InitGlance /\ [][GlanceNext]_vars

\* the gaze control with talk turns and motion requests
IdleGazeNext ==
  \/ AnimateGaze
  \/ GlanceClock
  \/ MotionClick
  \/ LookAtCameraTimeout
  \/ LipSyncStart
  \/ LipSyncStop

SpecIdleGaze == InitGlance /\ [][IdleGazeNext]_vars

\* requestAnimationFrame runs a frame again and again, the clock moves, due timeouts
\* fire, and a talk turn ends
SpecIdleGazeLive ==
  /\ SpecIdleGaze
  /\ WF_vars(AnimateGaze)
  /\ WF_vars(GlanceClock)
  /\ WF_vars(LookAtCameraTimeout)
  /\ WF_vars(LipSyncStop)

\* the emotion shown after a talk turn, with the emotion buttons
TransientNext ==
  \/ PlayEmotionAfterTalking
  \/ RevertEmotion
  \/ ApplyEmotion

SpecTransient == InitFace /\ [][TransientNext]_vars

\* the timer of stop() is run by the event loop
SpecEmotionLive == SpecEmotion /\ WF_vars(ReapplyEmotion)

\* the idle timers with the blinker, over time
TimerNext ==
  \/ AnimationTimeoutFires
  \/ StartIdleAnimationLoop
  \/ TalkActionStart
  \/ TalkActionEnd
  \/ IdleManagerUpdate
  \/ IdleBlinkerUpdate
  \/ DoBlink
  \/ AdvanceTime

InitTimers ==
  /\ TimerInit
  /\ \E k \in Random : FaceLoaded(<< HeadMesh, TeethMesh >>, k)
  /\ CamInit
  /\ GazeInit
  /\ SeqIdle
  /\ AudioIdle
  /\ GlanceIdle
  /\ SceneIdle
  /\ TickIdle

SpecTimers == InitTimers /\ [][TimerNext]_vars

GazeNext == MouseMove \/ AnimateFrame \/ ClockTick

InitGaze ==
  GazeInit /\ CamInit /\ FaceIdle /\ TimerIdle /\ SeqIdle /\ AudioIdle /\ GlanceIdle
  /\ SceneIdle
  /\ TickIdle

SpecGaze == InitGaze /\ [][GazeNext]_vars

SeqNext ==
  \/ SequenceEnter
  \/ SequenceLoadFailed
  \/ SequenceRetargetFailed
  \/ SequenceLoaded
  \/ ActionFinished
  \/ ForeignFinished
  \/ ResetDone
  \/ SelectCharacter
  \/ CharacterLoaded
  \/ IdleTimerFires

InitSeq ==
  /\ SeqInit
  /\ \E hips \in BOOLEAN : CamLoaded(hips)
  /\ FaceIdle
  /\ TimerIdle
  /\ GazeInit
  /\ AudioIdle
  /\ GlanceIdle
  /\ SceneIdle
  /\ TickIdle

SpecSeq == InitSeq /\ [][SeqNext]_vars

\* every await of a load settles, the ticked mixer finishes the clip it plays, and a
\* timer that is armed fires
SpecSeqLive ==
  /\ SpecSeq
  /\ WF_vars(SequenceLoadFailed)
  /\ WF_vars(SequenceRetargetFailed)
  /\ WF_vars(SequenceLoaded)
  /\ WF_vars(ActionFinished)
  /\ WF_vars(ResetDone)
  /\ WF_vars(CharacterLoaded)
  /\ WF_vars(IdleTimerFires)

AudioNext ==
  \/ PlayAudioEnter
  \/ AudioDecodeFailed
  \/ AudioDecoded
  \/ AudioEnded
  \/ LipSyncDropped
  \/ LipSyncMade

InitAudio ==
  AudioIdle /\ CamInit /\ FaceIdle /\ TimerIdle /\ GazeInit /\ SeqIdle /\ GlanceIdle
  /\ SceneIdle
  /\ TickIdle

SpecAudio == InitAudio /\ [][AudioNext]_vars

\* decodeAudioData settles, a buffer source that was started ends, and the load of a
\* character finishes
SpecAudioLive ==
  /\ SpecAudio
  /\ WF_vars(AudioDecodeFailed)
  /\ WF_vars(AudioDecoded)
  /\ WF_vars(AudioEnded)
  /\ WF_vars(LipSyncMade)

Spec == SpecCam

-----------------------------------------------------------------------------
(* Claims about the camera *)

\* C4: the controls are switched from disabled to enabled only by an update step taken in
\* TRANSITION_TO_ORBIT at which the camera position and the look-at target, as that step
\* leaves them after its lerp, are both at distance < Epsilon from the saved pose.
C4_EnabledOnlyBelowEpsilon ==
  [][ (~controlsEnabled /\ controlsEnabled') =>
        /\ mode = "TRANSITION_TO_ORBIT"
        /\ DistLess(Lerp(cameraPosition, savedCameraPosition), savedCameraPosition, Epsilon)
        /\ DistLess(Lerp(controlsTarget, savedControlsTarget), savedControlsTarget, Epsilon)
        /\ cameraPosition' = savedCameraPosition
        /\ controlsTarget' = savedControlsTarget ]_vars

\* the controls were re-enabled after the camera had followed the bone away from the saved pose
C4_Witness ==
  /\ enabledAt # << >>
  /\ followTicks >= 1
  /\ controlsEnabled
  /\ cameraPosition = savedCameraPosition
  /\ controlsTarget = savedControlsTarget

\* C5 as stated: FOLLOW is never left directly for ORBIT, and every TRANSITION_TO_ORBIT is
\* eventually followed by ORBIT with the controls enabled.
C5_Original ==
  /\ [][ mode = "FOLLOW" => mode' \in { "FOLLOW", "TRANSITION_TO_ORBIT" } ]_vars
  /\ (mode = "TRANSITION_TO_ORBIT") ~> (mode = "ORBIT" /\ controlsEnabled)

\* C5 as amended: FOLLOW is never left directly for ORBIT, and every TRANSITION_TO_ORBIT is
\* eventually followed by ORBIT with the controls enabled, unless setMode('FOLLOW') re-enters
\* FOLLOW before the transition has completed.
C5_TransitionCompletes ==
  /\ [][ mode = "FOLLOW" => mode' \in { "FOLLOW", "TRANSITION_TO_ORBIT" } ]_vars
  /\ (mode = "TRANSITION_TO_ORBIT") ~>
        ((mode = "ORBIT" /\ controlsEnabled) \/ mode = "FOLLOW")

\* FOLLOW was entered and left, and the transition ran to completion
C5_Witness ==
  /\ mode = "ORBIT"
  /\ controlsEnabled
  /\ setModeCalls = 2
  /\ followTicks = MaxFollowTicks
  /\ enabledAt # << >>

\* C15: setMode('FOLLOW') called while no follow target bone is set changes neither the
\* mode, nor controls.enabled, nor the saved camera pose: a camera in Orbit stays in Orbit
\* with its controls enabled.
C15_FollowNeedsBone ==
  [][ ( /\ setModeCalls' # setModeCalls
        /\ requested' = "FOLLOW"
        /\ ~followTargetBone )
      => UNCHANGED << mode, controlsEnabled, savedCameraPosition, savedControlsTarget >> ]_vars

\* FOLLOW was requested of a camera in Orbit that has no bone and that the user had
\* moved away from the pose saved last
C15_Witness ==
  /\ requested = "FOLLOW"
  /\ ~followTargetBone
  /\ mode = "ORBIT"
  /\ controlsEnabled
  /\ cameraPosition # savedCameraPosition
  /\ controlsTarget # savedControlsTarget

-----------------------------------------------------------------------------
(* Claims about the morph targets *)

\* C6, as stated: in a step taken while isTalking() holds and leaving it so, the write
\* that happens is never a write of the blinker.
C6_Original ==
  [][ (isTalking /\ isTalking' /\ lastWrite' # lastWrite) => lastWrite'.by # "blink" ]_vars

\* C6: while isTalking() holds no blink pulse starts, and whatever the blinker writes,
\* a pulse that was already running when lip-sync started included, is a blink channel
\* and no lip-sync channel.
C6_NoBlinkStartsWhileTalking ==
  /\ [][ isTalking => ~(~isBlinking /\ isBlinking') ]_vars
  /\ [](lastWrite.by = "blink" =>
          /\ lastWrite.chans \subseteq blink
          /\ lastWrite.chans \cap lipsyncMorphs = {})

\* a blink is due, lip-sync is talking and has written a vowel, and no pulse has started
C6_Witness ==
  /\ isTalking
  /\ lastWrite.by = "lipsync"
  /\ now >= nextBlinkTime
  /\ ~isBlinking
  /\ blinkIndices # {}

\* C19: IdleBlinker.update starts a blink only when no blink is in progress, isTalking()
\* is false and the clock has reached nextBlinkTime; the step that starts it takes the
\* current time as the start of the pulse and writes no morph weight, and in no other
\* case is a pulse started, restarted or its start time moved.
C19_BlinkStartsOnlyWhenDue ==
  [][ ( /\ << isBlinking, blinkStart, blinkFrame >>' # << isBlinking, blinkStart, blinkFrame >>
        /\ isBlinking' )
      => /\ ~isBlinking
         /\ ~isTalking
         /\ now >= nextBlinkTime
         /\ Len(vrmMeshes) > 0
         /\ blinkStart' = now
         /\ UNCHANGED << influences, nextBlinkTime, lastWrite >> ]_vars

\* a blink has just been started, at a time when it was due and nobody was talking
C19_Witness ==
  /\ isBlinking
  /\ blinkFrame
  /\ blinkStart = now
  /\ now >= nextBlinkTime
  /\ ~isTalking
  /\ lastWrite.by # "blink"

\* C21, as stated: on a model whose first mesh has no blink channel the blinker logs its
\* error once and makes no further attempt.
C21_Original == blinkErrors <= 1

\* every blink channel of every mesh is at 0
BlinkChannelsZero ==
  \A i \in 1..Len(vrmMeshes) : \A ch \in blink \cap DOMAIN influences[i] :
    influences[i][ch] = 0

\* C20: every blink that starts ends: isBlinking becomes false again, which happens only
\* once blinkDuration has passed since the start, with every blink channel written back
\* to 0 and nextBlinkTime set at least 2000 ms ahead; while a blink runs no other one
\* starts.
C20_BlinkEnds ==
  /\ isBlinking ~> (~isBlinking /\ BlinkChannelsZero /\ nextBlinkTime >= now + 2000)
  /\ [][ (isBlinking /\ ~isBlinking') =>
            /\ now - blinkStart >= blinkDuration
            /\ BlinkChannelsZero'
            /\ nextBlinkTime' >= now + 2000
            /\ nextBlinkTime' > nextBlinkTime ]_vars
  /\ [][ isBlinking => blinkStart' = blinkStart ]_vars

\* a blink has run for its duration and ended, the next one is scheduled
C20_Witness ==
  /\ ~isBlinking
  /\ ~blinkFrame
  /\ lastWrite.by = "blink"
  /\ blinkStart >= 2000
  /\ now >= blinkStart + blinkDuration
  /\ nextBlinkTime >= now + 2000
  /\ BlinkChannelsZero

\* the channels of a preset; none for a name that is no preset
EmotionChannels(emotion) ==
  IF emotion \in DOMAIN emotions THEN DOMAIN emotions[emotion] ELSE {}

\* C7: right after applyEmotion(A) then applyEmotion(B), on every mesh the channels of A
\* that B does not use are 0 and the channels of B hold B's weights.
C7_EmotionSwitch ==
  lastWrite.by = "emotion" =>
    \A i \in 1..Len(vrmMeshes) : \A ch \in DOMAIN influences[i] :
      /\ ch \in EmotionChannels(previousEmotion) \ EmotionChannels(currentEmotion)
           => influences[i][ch] = 0
      /\ ch \in EmotionChannels(currentEmotion)
           => influences[i][ch] = emotions[currentEmotion][ch]

\* applyEmotion("surprised") then applyEmotion("sad"): jawOpen and the eyeWide pair are
\* left by the switch, browInnerUp is shared, mouthPucker is new
C7_Witness ==
  /\ lastWrite.by = "emotion"
  /\ previousEmotion = "surprised"
  /\ currentEmotion = "sad"
  /\ \E i \in 1..Len(vrmMeshes) :
       /\ vrmMeshes[i].dictionary = FullDictionary
       /\ influences[i]["mouthPucker"] = 50
       /\ influences[i]["jawOpen"] = 0

\* C10, as stated: whatever a controller writes lies outside the channels registered for
\* the other two controllers.
C10_Original ==
  \A c \in Controllers \ { lastWrite.by } : lastWrite.chans \cap Registered(c) = {}

\* C11, as stated: a call of applyEmotion with a name that is no preset of the character
\* changes no morph weight and leaves the current emotion as it was.
C11_Original ==
  [][ ( /\ lastWrite'.by = "emotion"
        /\ currentEmotion' \notin DOMAIN emotions
        /\ << influences, currentEmotion, previousEmotion, lastWrite >>'
             # << influences, currentEmotion, previousEmotion, lastWrite >> )
      => ( influences' = influences /\ currentEmotion' = currentEmotion ) ]_vars

\* C17, as stated: every start() issued by playAudioWithLipSync is eventually followed by
\* a stop() that clears the interval it started, and the call resolves: the LipSync object
\* the call started is eventually not talking any more, the call being resolved.
C17_Original ==
  \A k \in AudioCalls :
    (audio[k].pc = "playing") ~>
       (audio[k].pc = "resolved" /\ audio[k].on \notin intervals)

-----------------------------------------------------------------------------
(* Claims about the timers and the pointer *)

\* C8: every randomised delay lies in its range: a blink delay in 2000..8000 ms, an Idle
\* or Standing dwell in 4000..10000 ms, a head resample in 3000..6000 ms and an eye
\* saccade in 500..2500 ms after the moment it is drawn.
C8_DelayRanges ==
  /\ nextBlinkTime - now \in 2000..8000
  /\ [](animationTimeout.dwell => animationTimeout.delay \in 4000..10000)
  /\ [][ /\ nextBlinkTime' # nextBlinkTime => (nextBlinkTime' - now') \in 2000..8000
         /\ nextHeadMoveTime' # nextHeadMoveTime => (nextHeadMoveTime' - now') \in 3000..6000
         /\ nextEyeMoveTime' # nextEyeMoveTime => (nextEyeMoveTime' - now') \in 500..2500
       ]_vars

\* a blink has ended and drawn its next delay, the loop has dwelt in Standing and is in
\* Idle, and head and eyes have drawn a delay each
C8_Witness ==
  /\ nextBlinkTime > now + 2000 /\ now >= 2000 /\ ~isBlinking
  /\ animationPhase = "idle" /\ animationTimeout.dwell
  /\ nextHeadMoveTime > 0
  /\ nextEyeMoveTime > 0

\* C9: the pointer position moves only in a frame that runs at least mouseGazeDelay after
\* the latest mousemove, and then it moves towards the latest sample received.
C9_PointerWaits ==
  /\ [](pendingMouseTarget # << >> => pendingMouseTarget = lastSample)
  /\ [][ mousePosition' # mousePosition =>
           /\ pendingMouseTarget # << >>
           /\ dateNow - lastMouseUpdate >= mouseGazeDelay
           /\ Dist2Sq(mousePosition', lastSample) < Dist2Sq(mousePosition, lastSample) ]_vars

\* two samples arrived, the delay passed, and the pointer has left the origin for the second
C9_Witness ==
  /\ mouseMoves = 2
  /\ lastSample = << -1000, 1000 >>
  /\ mousePosition[1] < 0
  /\ dateNow - lastMouseUpdate >= mouseGazeDelay

-----------------------------------------------------------------------------
(* Claims about playGeneratedSequence *)

\* the play-then-finished events of the n clips of call c, in list order
ChainEvents(c, n) ==
  [ k \in 1..(2 * n) |->
      IF k % 2 = 1 THEN Event("play", c, (k + 1) \div 2) ELSE Event("finished", c, k \div 2) ]

IsPrefix(s, t) == Len(s) <= Len(t) /\ \A k \in 1..Len(s) : s[k] = t[k]

\* call 1 is the only call made, and all its clips load and retarget with a track
AloneAndValid ==
  /\ call[1].pc # "new"
  /\ \A c \in Calls \ { 1 } : call[c].pc = "new"
  /\ Len(call[1].clips) >= 1
  /\ \A i \in 1..Len(call[1].clips) : call[1].clips[i] = "ok"

\* call 1 has run its chain to the end and no timer is pending
Settled == call[1].pc = "done" /\ standingTimeout # "toIdle" /\ orphanTimers = 0

\* the events C1 states: the chain, one Standing, one Idle
StatedEvents ==
  ChainEvents(1, Len(call[1].clips)) \o << Event("standing", 1, 0), Event("idle", 0, 0) >>

\* the events of the variant built in: the reset of variant A; Standing and, when the
\* idle clip has a track, Idle, of variant B
BuiltEvents ==
  ChainEvents(1, Len(call[1].clips)) \o
    (IF draft = "A" THEN << Event("reset", 1, 0) >>
     ELSE << Event("standing", 1, 0) >> \o
          (IF idleTracks THEN << Event("idle", 0, 0) >> ELSE << >>))

\* C1, as stated: a sequence of N valid clips, alone, makes N play-then-finished
\* transitions in list order, then one transition into Standing, then one into Idle.
C1_Original ==
  AloneAndValid => /\ IsPrefix(trace, StatedEvents)
                   /\ Settled => trace = StatedEvents

\* C1: a sequence of N valid clips, alone, makes N play-then-finished transitions in list
\* order; the Standing/Idle variant then makes one transition into Standing and, if the
\* idle clip has a track, one delayed transition into Idle; the other variant makes one
\* reset of the character instead.
C1_ChainThenStanding ==
  AloneAndValid => /\ IsPrefix(trace, BuiltEvents)
                   /\ Settled => trace = BuiltEvents

\* the Standing/Idle variant has played MaxClips clips, Standing and Idle
C1_Witness ==
  /\ AloneAndValid
  /\ draft = "B"
  /\ Len(call[1].clips) = MaxClips
  /\ Settled
  /\ base = "idle"
  /\ trace = StatedEvents

\* C2: a call one of whose clips fails to load never plays any of its clips, and ends in
\* the fallback to Standing or idle.
C2_LoadFailureAborts ==
  \A c \in Calls :
    (call[c].pc # "new" /\ \E i \in 1..Len(call[c].clips) : call[c].clips[i] = "fail") =>
      /\ \A k \in 1..Len(trace) : ~(trace[k].ev = "play" /\ trace[k].call = c)
      /\ call[c].pc \in { "loading", "aborted", "returned" }
      /\ call[c].pc = "aborted" => \E k \in 1..Len(trace) : trace[k] = Event("fallback", c, 0)

\* a call whose first clip loads and whose second fails has been given up, and the
\* fallback plays
C2_Witness ==
  \E c \in Calls :
    /\ call[c].clips = << "ok", "fail" >>
    /\ call[c].pc = "aborted"
    /\ base \in { "standing", "idle" }

\* C12, as stated: a sequence one of whose clips retargets to zero tracks is given up, the
\* character falls back to Standing/Idle, and none of its actions is ever played.
C12_Original ==
  \A c \in Calls :
    ( /\ SomeEmpty(call[c].clips)
      /\ ~LoadRejects(call[c].clips)
      /\ call[c].pc \notin { "new", "loading", "returned", "threw" } )
    => /\ call[c].pc = "aborted"
       /\ \A k \in 1..Len(trace) : ~(trace[k].ev = "play" /\ trace[k].call = c)

\* the idle clip, if the character has one, plays; the idle controller is active; the
\* model is shown; the camera is in Orbit or on its way back to it
StableIdle ==
  /\ idleTracks => (bvhIdlePlayer = "active" /\ base \in { "idle", "cycle" })
  /\ idleManager = "active"
  /\ visible
  /\ mode \in { "ORBIT", "TRANSITION_TO_ORBIT" }

\* the last thing that happened is the fallback of a sequence that was given up
LastIsFallback == Len(trace) > 0 /\ trace[Len(trace)].ev = "fallback"

C14_Original == (mode = "FOLLOW") ~> (mode # "FOLLOW")

\* C16, as stated: while an action of a generated sequence is playing on the ticked mixer,
\* the idle controller is not active, whatever other calls have done meanwhile.
C16_Original ==
  (draft = "A" /\ \E a \in playing : a[1] = mixer) => idleManager # "active"

\* C18: a 'finished' event handed to the listener of a sequence for an action that is not
\* the current action of that sequence changes nothing: not the index or the position of
\* any call, not what plays, not the listeners, the mixer, the timers, the idle systems
\* or the camera.
C18_ForeignEventIgnored ==
  [][ lastEvent' # lastEvent =>
        /\ lastEvent'.action #
             << mixer, lastEvent'.listener, call[lastEvent'.listener].index >>
        /\ UNCHANGED << call, listeners, playing, mixer, mixersMade, base, standingTimeout,
                        orphanTimers, trace, visible, idleManager, bvhIdlePlayer, camVars >> ]_vars

\* two sequences play on the ticked mixer, and the listener of one has been handed the
\* 'finished' event of the other's action while its own current action goes on playing
C18_Witness ==
  /\ lastEvent # NoEvent
  /\ lastEvent.action \in playing
  /\ lastEvent.action[2] # lastEvent.listener
  /\ << mixer, lastEvent.listener >> \in listeners
  /\ call[lastEvent.listener].pc = "playing"
  /\ << mixer, lastEvent.listener, call[lastEvent.listener].index >> \in playing

\* C3, as stated: once a call made while an earlier sequence was still playing has added
\* its listener, no other sequence listener is registered on the ticked mixer.
C3_Original ==
  \A c \in Calls :
    (call[c].reentry /\ << mixer, c >> \in listeners) =>
      \A l \in listeners : l[1] = mixer => l[2] = c

-----------------------------------------------------------------------------
(* Lip-sync ticks *)

\* ch of some mesh holds a weight that is not the one the current emotion's preset gives it
HeldByDriver(ch) ==
  \E i \in 1..Len(vrmMeshes) :
    /\ ch \in vrmMeshes[i].dictionary
    /\ influences[i][ch] # 0
    /\ ~(ch \in EmotionChannels(currentEmotion) /\
         influences[i][ch] = emotions[currentEmotion][ch])

\* C22: while talking, a channel of a vowel shape other than the last applied one holds no
\* weight of the lip-sync driver, and a step of the driver that writes while the interval
\* stays active ends at a vowel other than the one it started at
C22_OneVowelShape ==
  /\ [](isTalking =>
         \A v \in vowelShapes \ { lastVowel } : \A ch \in lipsync[v] : ~HeldByDriver(ch))
  /\ [][ (isTalking /\ isTalking' /\ lastWrite'.by = "lipsync" /\ influences' # influences)
           => lastVowel' # lastVowel ]_vars

\* a second tick has replaced the shape of the first one
C22_Witness ==
  /\ isTalking
  /\ lastVowel = "I"
  /\ HeldByDriver("mouthStretchLeft")
  /\ lastWrite.by = "lipsync"
  /\ "jawOpen" \in lastWrite.chans

-----------------------------------------------------------------------------
(* LipSync.start and LipSync.stop *)

\* every channel of vowel v is at 0 on every mesh, in the influences inf
VowelZero(inf, v) ==
  \A i \in 1..Len(vrmMeshes) : \A ch \in lipsync[v] \cap vrmMeshes[i].dictionary :
    inf[i][ch] = 0

\* C23: a vowel is applied only by a step taken while the interval is active, and none is
\* recorded when it is not; a step that clears the interval leaves lastVowel null and the
\* channels of the vowel it found at 0; on a model with no mesh, or none with a morph
\* dictionary, no step makes isTalking() true
C23_TalkingIffInterval ==
  /\ [](~isTalking => lastVowel = "null")
  /\ []((\A i \in 1..Len(vrmMeshes) : ~vrmMeshes[i].morphs) => ~isTalking)
  /\ [][ (lastVowel' # lastVowel /\ lastVowel' # "null") => (isTalking /\ isTalking') ]_vars
  /\ [][ (isTalking /\ ~isTalking')
           => /\ lastVowel' = "null"
              /\ lastVowel # "null" => VowelZero(influences', lastVowel) ]_vars

\* stop() has cleared the interval after a tick had applied a vowel
C23_Witness ==
  /\ ~isTalking
  /\ lastVowel = "null"
  /\ lastWrite.by = "lipsync"
  /\ lastWrite.chans = lipsync["A"]
  /\ VowelZero(influences, "A")
  /\ reapplyTimers > 0

-----------------------------------------------------------------------------
(* The emotion after talking *)

\* every channel of the current emotion's preset holds the preset's weight, in inf
PresetHolds(inf, emotion) ==
  \A i \in 1..Len(vrmMeshes) : \A ch \in EmotionChannels(emotion) \cap vrmMeshes[i].dictionary :
    inf[i][ch] = emotions[emotion][ch]

-----------------------------------------------------------------------------
(* The emotion shown after a talk turn *)

\* C25, as stated: when the timer of playEmotionAfterTalking fires after an emotion other
\* than the transient one was chosen during the window, the chosen emotion stays.
C25_Original ==
  [][ (revertTimers' < revertTimers /\ currentEmotion # "happy")
        => currentEmotion' = currentEmotion ]_vars

-----------------------------------------------------------------------------
(* Gaze control *)

\* C26: a frame passes the camera position when lip-sync is talking; when it is not, the
\* camera position inside the glance window and the pointer's intersection point outside it
C26_GazePrecedence ==
  [][ (lastGazeTime' # lastGazeTime \/ lookAtTarget' # lookAtTarget)
        => lookAtTarget' =
             IF isTalking THEN "camera"
             ELSE IF /\ currentTime >= nextCameraGlanceTime'
                     /\ currentTime < nextCameraGlanceTime' + CAMERA_GLANCE_DURATION
                    THEN "camera"
                    ELSE "intersection" ]_vars

\* a frame taken while talking, outside the glance window, has passed the camera position
C26_Witness ==
  /\ isTalking
  /\ lastGazeTime = currentTime
  /\ nextCameraGlanceTime # 0
  /\ currentTime >= nextCameraGlanceTime + CAMERA_GLANCE_DURATION
  /\ lookAtTarget = "camera"

\* C27, as stated: when a frame has run with the glance window over, the next glance has
\* been scheduled, so the window that is scheduled never lies wholly in the past.
C27_Original ==
  ~( /\ nextCameraGlanceTime # 0
     /\ ~isTalking
     /\ lastGazeTime >= nextCameraGlanceTime + CAMERA_GLANCE_DURATION )

-----------------------------------------------------------------------------
(* The Standing/Idle alternation around a generated sequence *)

\* variant B at rest after a sequence: some call has ended or was given up, none is loading
\* or playing, and no delayed-Idle timer is pending
AtRestAfterSequence ==
  /\ draft = "B"
  /\ \E c \in Calls : call[c].pc \in { "done", "aborted" }
  /\ \A c \in Calls : call[c].pc \notin { "loading", "playing" }
  /\ standingTimeout # "toIdle"
  /\ orphanTimers = 0

\* C28, as stated: once a generated sequence has finished or been given up and nothing else
\* is requested, the dwell timer of the Standing/Idle alternation is armed again.
C28_Original == AtRestAfterSequence => standingTimeout = "cycle"

\* the clip-transition timers pending in the Standing/Idle variant: the one standingTimeout
\* names, and those armed earlier that were neither fired nor cleared
PendingTransitionTimers ==
  (IF standingTimeout # "none" THEN 1 ELSE 0) + orphanTimers

\* C29, as stated: at most one clip-transition timer is pending at any time.
C29_Original == PendingTransitionTimers <= 1

\* C30, as stated: the step of playGeneratedSequence that starts loading the clip files
\* leaves the base action playing and the model visible as they were.
C30_Original ==
  [][ \A c \in Calls :
        (call[c].pc = "new" /\ call'[c].pc = "loading")
          => (base' = base /\ visible' = visible) ]_vars

-----------------------------------------------------------------------------
(* The saved orbit pose *)

\* C31, as stated: the saved pose changes only in a step taken in mode ORBIT, so entering
\* Follow again from TRANSITION_TO_ORBIT leaves it as it was.
C31_Original ==
  [][ << savedCameraPosition, savedControlsTarget >>'
        # << savedCameraPosition, savedControlsTarget >> => mode = "ORBIT" ]_vars

\* C32: the user controls are enabled exactly in mode ORBIT, whatever setMode,
\* setFollowTargetBone and update calls have been made
C32_EnabledIffOrbit == controlsEnabled <=> mode = "ORBIT"

\* the camera is on its way back from a follow that had moved it, the controls still disabled
C32_Witness ==
  /\ mode = "TRANSITION_TO_ORBIT"
  /\ ~controlsEnabled
  /\ followTicks > 0
  /\ cameraPosition # savedCameraPosition
  /\ requested = "ORBIT"

-----------------------------------------------------------------------------
(* The mixer after the awaited clip load *)

\* C33, as stated: no call of playGeneratedSequence finds the mixer undefined when its
\* clip files have loaded.
C33_Original == \A c \in Calls : call[c].pc # "threw"

-----------------------------------------------------------------------------
(* The lip-sync interval and its owner *)

\* C34, as stated: the only lip-sync interval that can be active is that of the LipSync
\* object the global lipSync refers to.
C34_Original == intervals \subseteq { lipSync } \ { 0 }

-----------------------------------------------------------------------------
(* The character models in the scene *)

\* C35, as stated: at most one character model is a child of the scene at any time, also
\* when loads overlap.
C35_Original == Cardinality(scene) <= 1

-----------------------------------------------------------------------------
(* The vowel selection loop *)

\* C36, as stated: for every non-empty vowel table, one vowel only included, a tick that
\* has entered its selection loop leaves it.
C36_Original == (tickPc = "loop") ~> (tickPc = "idle")

-----------------------------------------------------------------------------
(* The state-enforcement interval of the standing/idle variant *)

\* the calls of playGeneratedSequence whose stateEnforcementInterval is set and not
\* cleared: set where the first action is played, cleared in the last branch of the
\* listener
stateEnforcementIntervals ==
  IF draft = "B" THEN { c \in Calls : call[c].pc = "playing" } ELSE {}

\* C37, as stated: at most one state-enforcement interval is active at a time, and the
\* interval of every sequence that starts playing is cleared at some point, superseded
\* or not.
C37_Original ==
  /\ [](Cardinality(stateEnforcementIntervals) <= 1)
  /\ \A c \in Calls :
       (c \in stateEnforcementIntervals) ~> (c \notin stateEnforcementIntervals)

-----------------------------------------------------------------------------
(* The ambient idle motion *)

\* C38, as stated: once a frame has run with lip-sync not talking and no camera-glance
\* window active, some later frame's IdleManager.update finds the gaze target cleared and
\* runs the ambient idle motion.
C38_Original ==
  ( /\ lastGazeTime = currentTime
    /\ ~isTalking
    /\ ~shouldGlanceAtCamera(currentTime, nextCameraGlanceTime) )
    ~> (idleBranch = "ambient")

====
